---------------------------- MODULE Spec2Model ----------------------------
(***************************************************************************)
(* Sentinel-2 grid explorer (script.js): the selection store, the click    *)
(* and shift-drag controllers, the share-URL codec and the startup load,   *)
(* as a state machine.  Strings are sequences of one-character strings so  *)
(* that toUpperCase, trim, split, sort and percent-encoding are computed.  *)
(* A feature of the dataset is referred to by its index in                 *)
(* gridData.features (a JavaScript object reference).                      *)
(***************************************************************************)
EXTENDS Integers, Sequences, FiniteSets, TLC

\* a JavaScript value that may be null: <<>> is null, <<v>> is the value v
None == <<>>
Some(v) == <<v>>

(* ------------------------------------------------------------------ *)
(* Bounds of the model                                                  *)
(* ------------------------------------------------------------------ *)
\* rectangle layers that may pile up on the map before the model stops
\* accepting further shift pointer-downs
MaxRectangles == 2
\* length of the feature lists handed to updateSelection in ApiSpec
MaxListLen == 2
\* number of names in the name lists handed to the codec in CodecSpec
MaxNames == 2

(* ------------------------------------------------------------------ *)
(* Strings                                                              *)
(* ------------------------------------------------------------------ *)
HexDigits == <<"0","1","2","3","4","5","6","7","8","9","A","B","C","D","E","F">>

\* UTF-16 code unit of the characters the model uses
CharCode(c) ==
    CASE c = " " -> 32 [] c = "!" -> 33 [] c = "%" -> 37 [] c = "&" -> 38
      [] c = "*" -> 42 [] c = "+" -> 43
      [] c = "," -> 44 [] c = "=" -> 61 [] c = "?" -> 63
      [] c = "0" -> 48 [] c = "1" -> 49 [] c = "2" -> 50 [] c = "3" -> 51
      [] c = "4" -> 52 [] c = "5" -> 53 [] c = "6" -> 54 [] c = "7" -> 55
      [] c = "8" -> 56 [] c = "9" -> 57
      [] c = "A" -> 65 [] c = "B" -> 66 [] c = "C" -> 67 [] c = "D" -> 68
      [] c = "E" -> 69 [] c = "F" -> 70 [] c = "G" -> 71 [] c = "I" -> 73
      [] c = "N" -> 78 [] c = "R" -> 82 [] c = "S" -> 83 [] c = "Z" -> 90
      [] c = "a" -> 97 [] c = "b" -> 98 [] c = "c" -> 99 [] c = "d" -> 100
      [] c = "e" -> 101 [] c = "f" -> 102 [] c = "g" -> 103 [] c = "i" -> 105
      [] c = "m" -> 109 [] c = "n" -> 110 [] c = "o" -> 111
      [] c = "r" -> 114 [] c = "s" -> 115 [] c = "z" -> 122

Alphabet ==
    {" ","!","%","&","*","+",",","=","?","0","1","2","3","4","5","6","7","8","9",
     "A","B","C","D","E","F","G","I","R","S","Z",
     "a","b","c","d","e","f","g","i","r","s","z"}

\* String.prototype.toUpperCase on one character
ToUpperChar(c) ==
    CASE c = "a" -> "A" [] c = "b" -> "B" [] c = "c" -> "C" [] c = "d" -> "D"
      [] c = "e" -> "E" [] c = "f" -> "F" [] c = "g" -> "G" [] c = "i" -> "I"
      [] c = "r" -> "R" [] c = "s" -> "S" [] c = "z" -> "Z"
      [] c = "n" -> "N"
      [] OTHER -> c

toUpperCase(s) == [i \in DOMAIN s |-> ToUpperChar(s[i])]

ToLowerChar(c) ==
    CASE c = "A" -> "a" [] c = "B" -> "b" [] c = "C" -> "c" [] c = "D" -> "d"
      [] c = "E" -> "e" [] c = "F" -> "f" [] c = "G" -> "g" [] c = "I" -> "i"
      [] c = "R" -> "r" [] c = "S" -> "s" [] c = "Z" -> "z"
      [] c = "N" -> "n"
      [] OTHER -> c

IsWhitespace(c) == c = " "

\* String.prototype.trim
RECURSIVE trimStart(_)
trimStart(s) ==
    IF s # <<>> /\ IsWhitespace(Head(s)) THEN trimStart(Tail(s)) ELSE s

RECURSIVE trimEnd(_)
trimEnd(s) ==
    IF s # <<>> /\ IsWhitespace(s[Len(s)])
    THEN trimEnd(SubSeq(s, 1, Len(s) - 1)) ELSE s

trim(s) == trimEnd(trimStart(s))

\* String.prototype.split(sep) for a one-character separator
RECURSIVE splitAcc(_, _, _)
splitAcc(s, sep, cur) ==
    IF s = <<>> THEN <<cur>>
    ELSE IF Head(s) = sep THEN <<cur>> \o splitAcc(Tail(s), sep, <<>>)
    ELSE splitAcc(Tail(s), sep, Append(cur, Head(s)))

split(s, sep) == splitAcc(s, sep, <<>>)

\* Array.prototype.join(sep)
RECURSIVE join(_, _)
join(parts, sep) ==
    IF parts = <<>> THEN <<>>
    ELSE IF Len(parts) = 1 THEN parts[1]
    ELSE parts[1] \o <<sep>> \o join(Tail(parts), sep)

\* the default Array.prototype.sort order: by UTF-16 code units
RECURSIVE CodeUnitLess(_, _)
CodeUnitLess(a, b) ==
    IF a = <<>> THEN b # <<>>
    ELSE IF b = <<>> THEN FALSE
    ELSE IF Head(a) = Head(b) THEN CodeUnitLess(Tail(a), Tail(b))
    ELSE CharCode(Head(a)) < CharCode(Head(b))

\* String.prototype.localeCompare(b) < 0 in the root collation: letters
\* compare without case first (digits before letters), lower case before
\* upper case breaks a tie
LocaleLess(a, b) ==
    LET la == [i \in DOMAIN a |-> ToLowerChar(a[i])]
        lb == [i \in DOMAIN b |-> ToLowerChar(b[i])]
    IN  IF la # lb THEN CodeUnitLess(la, lb) ELSE CodeUnitLess(b, a)

\* [...new Set(array)]: the first occurrence of every value, in order
RECURSIVE uniqueInOrder(_)
uniqueInOrder(s) ==
    IF s = <<>> THEN <<>>
    ELSE LET init == SubSeq(s, 1, Len(s) - 1)
             last == s[Len(s)]
             rest == uniqueInOrder(init)
         IN  IF \E i \in DOMAIN init : init[i] = last THEN rest
             ELSE Append(rest, last)

Range(s) == {s[i] : i \in DOMAIN s}

(* ------------------------------------------------------------------ *)
(* The URL query: URLSearchParams and URL.searchParams                  *)
(* ------------------------------------------------------------------ *)
GRID == <<"g","r","i","d">>
GRIDS == <<"g","r","i","d","s">>

IsAlnum(c) ==
    \/ CharCode(c) \in 48..57
    \/ CharCode(c) \in 65..90
    \/ CharCode(c) \in 97..122

HexValue(c) == (CHOOSE i \in 1..16 : HexDigits[i] = ToUpperChar(c)) - 1

IsHexDigit(c) == \E i \in 1..16 : HexDigits[i] = ToUpperChar(c)

percentEncodeChar(c) ==
    <<"%", HexDigits[(CharCode(c) \div 16) + 1], HexDigits[(CharCode(c) % 16) + 1]>>

\* a serialisation that escapes nothing
formEncodeRaw(s) == s

\* application/x-www-form-urlencoded serialisation of one name or value
RECURSIVE formEncode(_)
formEncode(s) ==
    IF s = <<>> THEN <<>>
    ELSE LET c == Head(s)
         IN  (IF c \in {"*", "-", ".", "_"} \/ IsAlnum(c) THEN <<c>>
              ELSE IF c = " " THEN <<"+">>
              ELSE percentEncodeChar(c)) \o formEncode(Tail(s))

\* the parser's decoding of one name or value: '+' is a space, %XX a byte;
\* a '%' not followed by two hex digits stays as it is
RECURSIVE formDecode(_)
formDecode(s) ==
    IF s = <<>> THEN <<>>
    ELSE IF Head(s) = "+" THEN <<" ">> \o formDecode(Tail(s))
    ELSE IF /\ Head(s) = "%" /\ Len(s) >= 3 /\ IsHexDigit(s[2]) /\ IsHexDigit(s[3])
            /\ \E c \in Alphabet : CharCode(c) = 16 * HexValue(s[2]) + HexValue(s[3])
         THEN <<CHOOSE c \in Alphabet : CharCode(c) = 16 * HexValue(s[2]) + HexValue(s[3])>>
              \o formDecode(SubSeq(s, 4, Len(s)))
    ELSE <<Head(s)>> \o formDecode(Tail(s))

IndexOf(s, c) ==
    IF \E i \in DOMAIN s : s[i] = c
    THEN CHOOSE i \in DOMAIN s : s[i] = c /\ \A j \in 1..(i - 1) : s[j] # c
    ELSE 0

\* new URLSearchParams(search): the list of <<name, value>> pairs
parsePair(piece) ==
    LET eq == IndexOf(piece, "=")
    IN  IF eq = 0 THEN <<formDecode(piece), <<>>>>
        ELSE <<formDecode(SubSeq(piece, 1, eq - 1)),
               formDecode(SubSeq(piece, eq + 1, Len(piece)))>>

parseQuery(search) ==
    LET body == IF search # <<>> /\ Head(search) = "?" THEN Tail(search) ELSE search
        pieces == SelectSeq(split(body, "&"), LAMBDA p : p # <<>>)
    IN  [i \in DOMAIN pieces |-> parsePair(pieces[i])]

\* url.toString(): the query part, "?" and the serialised list, or nothing
serializeQuery(params) ==
    IF params = <<>> THEN <<>>
    ELSE <<"?">> \o join([i \in DOMAIN params |->
                            formEncode(params[i][1]) \o <<"=">> \o formEncode(params[i][2])],
                         "&")

\* URLSearchParams.get: the first value under the name, or null
paramsGet(params, name) ==
    IF \E i \in DOMAIN params : params[i][1] = name
    THEN Some(params[CHOOSE i \in DOMAIN params :
                       params[i][1] = name /\ \A j \in 1..(i - 1) : params[j][1] # name][2])
    ELSE None

paramsDelete(params, name) == SelectSeq(params, LAMBDA p : p[1] # name)

\* URLSearchParams.set on a list that has just lost the name: append
paramsSet(params, name, value) ==
    IF \E i \in DOMAIN params : params[i][1] = name
    THEN LET first == CHOOSE i \in DOMAIN params :
                        params[i][1] = name /\ \A j \in 1..(i - 1) : params[j][1] # name
             kept == [i \in DOMAIN params |-> IF i = first THEN <<name, value>> ELSE params[i]]
             idx == SelectSeq([i \in DOMAIN params |-> i],
                              LAMBDA i : i = first \/ params[i][1] # name)
         IN  [k \in DOMAIN idx |-> kept[idx[k]]]
    ELSE Append(params, <<name, value>>)

\* namesArray.map(toUpperCase), new Set, sort()
upperSortedOf(gridNames) ==
    SortSeq(uniqueInOrder([i \in DOMAIN gridNames |-> toUpperCase(gridNames[i])]),
            CodeUnitLess)

\* an update that deletes only the parameter it is about to set
searchParamsKeepingOther(params, gridNames) ==
    LET upperSorted == upperSortedOf(gridNames)
    IN  IF Len(upperSorted) = 1 THEN paramsSet(paramsDelete(params, GRID), GRID, upperSorted[1])
        ELSE IF Len(upperSorted) > 1
             THEN paramsSet(paramsDelete(params, GRIDS), GRIDS, join(upperSorted, ","))
        ELSE paramsDelete(paramsDelete(params, GRID), GRIDS)

\* updateAddressBarWithSelection, the try branch, on url.searchParams:
\* delete grid and grids, then set one of them
searchParamsAfterUpdate(params, gridNames) ==
    LET upperSorted == upperSortedOf(gridNames)
        cleared == paramsDelete(paramsDelete(params, GRID), GRIDS)
    IN  IF Len(upperSorted) = 1 THEN paramsSet(cleared, GRID, upperSorted[1])
        ELSE IF Len(upperSorted) > 1 THEN paramsSet(cleared, GRIDS, join(upperSorted, ","))
        ELSE cleared

\* updateAddressBarWithSelection, the try branch: the query string the
\* address bar holds after history.replaceState(url.toString())
updateAddressBarWithSelection(search, gridNames) ==
    serializeQuery(searchParamsAfterUpdate(parseQuery(search), gridNames))

\* getGridParamsFromUrl, lines 2087-2101: the names of one parameter
namesOfParam(param, isList) ==
    IF param = None \/ param[1] = <<>> THEN <<>>
    ELSE LET value == param[1]
             parts == IF isList THEN split(value, ",") ELSE <<value>>
             trimmed == [i \in DOMAIN parts |-> trim(parts[i])]
             kept == SelectSeq(trimmed, LAMBDA t : Len(t) > 0)
         IN  [i \in DOMAIN kept |-> toUpperCase(kept[i])]

\* getGridParamsFromUrl on the parsed parameters: the unique upper-cased
\* names, or null
gridParamsOf(params) ==
    LET names == namesOfParam(paramsGet(params, GRIDS), TRUE)
                 \o namesOfParam(paramsGet(params, GRID), FALSE)
        uniqueNames == uniqueInOrder(names)
    IN  IF Len(uniqueNames) > 0 THEN Some(uniqueNames) ELSE None

getGridParamsFromUrl(search) == gridParamsOf(parseQuery(search))


(* ------------------------------------------------------------------ *)
(* The dataset and its geometry                                         *)
(* ------------------------------------------------------------------ *)
\* a closed ring around the box [w, e] x [s, n], as <<lng, lat>> pairs
BoxRing(w, s, e, n) == << <<w, s>>, <<e, s>>, <<e, n>>, <<w, n>>, <<w, s>> >>

\* data/sentinel-2_grids.geojson as the model loads it: two overlapping
\* features whose names differ only in case, and a MultiPolygon without any
\* name property that overlaps the second
GridFeatures ==
    << [properties |-> ("name" :> <<"1","a">>),
        geometry |-> [type |-> "Polygon", coordinates |-> <<BoxRing(0, 0, 2, 2)>>]],
       [properties |-> ("name" :> <<>> @@ "Name" :> <<"1","A">> @@ "id" :> <<"7">>),
        geometry |-> [type |-> "Polygon", coordinates |-> <<BoxRing(1, 0, 3, 2)>>]],
       [properties |-> ("zone" :> <<"6">>),
        geometry |-> [type |-> "MultiPolygon",
                      coordinates |-> << <<BoxRing(2, 0, 4, 2)>>, <<BoxRing(8, 0, 9, 1)>> >>]] >>

FeatureIds == DOMAIN GridFeatures

\* features a dataset can hold near the antimeridian: across it with
\* longitudes past 180, up to -180 from the east, split into two parts at
\* it, wholly past 180, far from it, across it at another latitude, and a
\* geometry that is no polygon
AntimeridianFeatures ==
    << [properties |-> ("name" :> <<"6","0","a">>),
        geometry |-> [type |-> "Polygon", coordinates |-> <<BoxRing(178, 0, 182, 2)>>]],
       [properties |-> ("name" :> <<"0","1","a">>),
        geometry |-> [type |-> "Polygon", coordinates |-> <<BoxRing(-180, 0, -178, 2)>>]],
       [properties |-> ("name" :> <<"0","1","b">>),
        geometry |-> [type |-> "MultiPolygon",
                      coordinates |-> << <<BoxRing(179, 0, 180, 2)>>,
                                         <<BoxRing(-180, 0, -179, 2)>> >>]],
       [properties |-> ("name" :> <<"0","1","c">>),
        geometry |-> [type |-> "Polygon", coordinates |-> <<BoxRing(181, 0, 185, 2)>>]],
       [properties |-> ("name" :> <<"5","0","a">>),
        geometry |-> [type |-> "Polygon", coordinates |-> <<BoxRing(100, 0, 110, 2)>>]],
       [properties |-> ("name" :> <<"6","0","z">>),
        geometry |-> [type |-> "Polygon", coordinates |-> <<BoxRing(178, 50, 182, 52)>>]],
       [properties |-> ("name" :> <<"l">>),
        geometry |-> [type |-> "LineString", coordinates |-> << <<179, 0>>, <<181, 1>> >>]] >>

AllFeatures == GridFeatures \o AntimeridianFeatures

Feature(f) == AllFeatures[f]

\* feature.properties?.name || Name || title || TITLE || id || 'Grid'
getGridName(feature) ==
    LET p == feature.properties
        has(k) == k \in DOMAIN p /\ p[k] # <<>>
    IN  IF has("name") THEN p["name"]
        ELSE IF has("Name") THEN p["Name"]
        ELSE IF has("title") THEN p["title"]
        ELSE IF has("TITLE") THEN p["TITLE"]
        ELSE IF has("id") THEN p["id"]
        ELSE <<"G","r","i","d">>

\* the name and the upper-cased name of every feature, computed once
NameTable == [f \in FeatureIds |-> getGridName(Feature(f))]

NameOf(f) == NameTable[f]

UpperTable == [f \in FeatureIds |-> toUpperCase(NameOf(f))]

UpperOf(f) == UpperTable[f]

RECURSIVE SumSeq(_)
SumSeq(s) == IF s = <<>> THEN 0 ELSE Head(s) + SumSeq(Tail(s))

\* getPolygonCentroid: the mean of the outer ring's vertices (of the first
\* polygon of a MultiPolygon), or null.  A quotient a / n is kept as <<a, n>>.
getPolygonCentroid(geometry) ==
    IF geometry.type \notin {"Polygon", "MultiPolygon"} THEN None
    ELSE LET coords == IF geometry.type = "Polygon" THEN geometry.coordinates[1]
                       ELSE geometry.coordinates[1][1]
             validCoords == SelectSeq(coords, LAMBDA c : Len(c) >= 2)
         IN  IF Len(coords) = 0 THEN None
             ELSE Some([lat |-> <<SumSeq([i \in DOMAIN validCoords |-> validCoords[i][2]]),
                                   Len(validCoords)>>,
                        lng |-> <<SumSeq([i \in DOMAIN validCoords |-> validCoords[i][1]]),
                                   Len(validCoords)>>])

Min(S) == CHOOSE x \in S : \A y \in S : x <= y
Max(S) == CHOOSE x \in S : \A y \in S : x >= y

\* L.latLngBounds(a, b) of two <<lng, lat>> corners
latLngBounds(a, b) ==
    [south |-> Min({a[2], b[2]}), north |-> Max({a[2], b[2]}),
     west |-> Min({a[1], b[1]}), east |-> Max({a[1], b[1]})]

\* bounds.contains([lat, lng]) for a centroid of quotients
boundsContains(bounds, c) ==
    /\ c.lat[1] >= bounds.south * c.lat[2] /\ c.lat[1] <= bounds.north * c.lat[2]
    /\ c.lng[1] >= bounds.west * c.lng[2] /\ c.lng[1] <= bounds.east * c.lng[2]

\* a bounding-box test that knows no bounds across the antimeridian
isPolygonIntersectingPlainBounds(coords, bounds) ==
    IF Len(coords) = 0 THEN FALSE
    ELSE LET lats == {coords[i][2] : i \in DOMAIN coords}
             lngs == {coords[i][1] : i \in DOMAIN coords}
         IN  /\ Max(lngs) >= bounds.west /\ Min(lngs) <= bounds.east
             /\ Max(lats) >= bounds.south /\ Min(lats) <= bounds.north

\* isPolygonIntersectingBounds: the ring's bounding box against the bounds
isPolygonIntersectingBounds(coords, bounds) ==
    IF Len(coords) = 0 THEN FALSE
    ELSE LET lats == {coords[i][2] : i \in DOMAIN coords}
             lngs == {coords[i][1] : i \in DOMAIN coords}
             minLat == Min(lats)
             maxLat == Max(lats)
             minLng == Min(lngs)
             maxLng == Max(lngs)
             lngIntersects ==
                 \/ (maxLng >= bounds.west /\ minLng <= bounds.east)
                 \/ (bounds.west > bounds.east
                     /\ (maxLng >= bounds.west \/ minLng <= bounds.east))
             latIntersects == maxLat >= bounds.south /\ minLat <= bounds.north
         IN  lngIntersects /\ latIntersects

\* isPointInLinearRing: ray casting; edge i runs from vertex j = i - 1 (the
\* last vertex for the first) to vertex i.  The quotient of the source is
\* compared by cross-multiplication (yj - yi is not 0 where it is used).
edgeIntersects(point, ring, i) ==
    LET j == IF i = 1 THEN Len(ring) ELSE i - 1
        xi == ring[i][1]
        yi == ring[i][2]
        xj == ring[j][1]
        yj == ring[j][2]
    IN  /\ (yi > point[2]) # (yj > point[2])
        /\ IF yj - yi > 0
           THEN (point[1] - xi) * (yj - yi) < (xj - xi) * (point[2] - yi)
           ELSE (point[1] - xi) * (yj - yi) > (xj - xi) * (point[2] - yi)

isPointInLinearRing(point, ring) ==
    IF Len(ring) = 0 THEN FALSE
    ELSE Cardinality({i \in DOMAIN ring : edgeIntersects(point, ring, i)}) % 2 = 1

\* a containment test that knows no holes
isPointInOuterRing(point, polygon) ==
    /\ Len(polygon) > 0
    /\ isPointInLinearRing(point, polygon[1])

\* isPointInPolygon: inside ring 0 and inside no later ring
isPointInPolygon(point, polygon) ==
    /\ Len(polygon) > 0
    /\ isPointInLinearRing(point, polygon[1])
    /\ \A i \in 2..Len(polygon) : ~isPointInLinearRing(point, polygon[i])

isLatLngInFeature(latlng, feature) ==
    LET geometry == feature.geometry
    IN  IF geometry.type = "Polygon" THEN isPointInPolygon(latlng, geometry.coordinates)
        ELSE IF geometry.type = "MultiPolygon"
             THEN \E k \in DOMAIN geometry.coordinates :
                    isPointInPolygon(latlng, geometry.coordinates[k])
        ELSE FALSE

\* doesFeatureIntersectBounds: outer-ring boxes, then the centroid
doesFeatureIntersectBounds(feature, bounds) ==
    LET geometry == feature.geometry
        byRing ==
            IF geometry.type = "Polygon"
            THEN isPolygonIntersectingBounds(geometry.coordinates[1], bounds)
            ELSE IF geometry.type = "MultiPolygon"
                 THEN \E k \in DOMAIN geometry.coordinates :
                        isPolygonIntersectingBounds(geometry.coordinates[k][1], bounds)
            ELSE FALSE
        centroid == getPolygonCentroid(geometry)
    IN  byRing \/ (centroid # None /\ boundsContains(bounds, centroid[1]))

\* dedupeFeaturesByName: the first feature of every upper-cased name
RECURSIVE dedupeFeaturesByName(_)
dedupeFeaturesByName(features) ==
    IF features = <<>> THEN <<>>
    ELSE LET init == SubSeq(features, 1, Len(features) - 1)
             last == features[Len(features)]
             rest == dedupeFeaturesByName(init)
         IN  IF \E i \in DOMAIN init : UpperOf(init[i]) = UpperOf(last) THEN rest
             ELSE Append(rest, last)

\* getWrappedBounds: the box, its two halves when it crosses the
\* antimeridian, and the box one world to the left and to the right
getWrappedBounds(bounds) ==
    <<bounds>>
    \o (IF bounds.west > bounds.east
        THEN << latLngBounds(<<bounds.west, bounds.south>>, <<180, bounds.north>>),
                latLngBounds(<<-180, bounds.south>>, <<bounds.east, bounds.north>>) >>
        ELSE <<>>)
    \o << latLngBounds(<<bounds.west - 360, bounds.south>>, <<bounds.east - 360, bounds.north>>),
          latLngBounds(<<bounds.west + 360, bounds.south>>, <<bounds.east + 360, bounds.north>>) >>

\* a visibility test against the viewport box alone
getVisibleGridsInViewportOnly(features, bounds) ==
    LET isVisible(f) ==
            LET geometry == Feature(f).geometry
            IN  IF geometry.type = "Polygon"
                THEN isPolygonIntersectingBounds(geometry.coordinates[1], bounds)
                ELSE IF geometry.type = "MultiPolygon"
                     THEN \E k \in DOMAIN geometry.coordinates :
                            isPolygonIntersectingBounds(geometry.coordinates[k][1], bounds)
                ELSE FALSE
    IN  SelectSeq(features, isVisible)

\* getVisibleGrids: the features (in dataset order) with a polygon part
\* whose outer ring meets one of the wrapped boxes
getVisibleGrids(features, bounds) ==
    LET wrapped == getWrappedBounds(bounds)
        isVisible(f) ==
            LET geometry == Feature(f).geometry
            IN  \E w \in DOMAIN wrapped :
                  IF geometry.type = "Polygon"
                  THEN isPolygonIntersectingBounds(geometry.coordinates[1], wrapped[w])
                  ELSE IF geometry.type = "MultiPolygon"
                       THEN \E k \in DOMAIN geometry.coordinates :
                              isPolygonIntersectingBounds(geometry.coordinates[k][1], wrapped[w])
                  ELSE FALSE
    IN  SelectSeq(features, isVisible)

\* findFeaturesInBounds
findFeaturesInBounds(features, bounds) ==
    dedupeFeaturesByName(
        SelectSeq(features, LAMBDA f : doesFeatureIntersectBounds(Feature(f), bounds)))


(* ------------------------------------------------------------------ *)
(* Configuration and inputs                                             *)
(* ------------------------------------------------------------------ *)
minZoomForGrids == 3
labelZoomThreshold == 8
maxGridsToRender == 60000

\* where the pointer can be: inside two grids of one name, inside two grids
\* of different names and on the right edge of a third (on it for the
\* renderer, outside it for the ray casting), and on no grid
PointerPositions == { <<1, 1>>, <<2, 1>>, <<5, 1>> }

\* the viewports the user can pan and zoom to (zoom stays within
\* mapOptions.minZoom .. maxZoom)
Views ==
    { [zoom |-> 5, bounds |-> [south |-> -1, north |-> 3, west |-> -1, east |-> 10]],
      [zoom |-> 5, bounds |-> [south |-> -1, north |-> 3, west |-> -1, east |-> 1]] }

InitialView == [zoom |-> 5, bounds |-> [south |-> -1, north |-> 3, west |-> -1, east |-> 10]]

\* window.location.search when the page is opened
StartupSearches ==
    { <<>>,
      <<"?","g","r","i","d","s","=","1","b","%","2","C","G","r","i","d","&","g","r","i","d","=","1","A">>,
      <<"?","z","=","5","&","g","r","i","d","s","=","z","z",",","+","1","a">>,
      <<"?","g","r","i","d","=","z","z">> }

(* ------------------------------------------------------------------ *)
(* State                                                                *)
(* ------------------------------------------------------------------ *)
VARIABLES
    gridData,                   \* null, or the loaded feature list
    noCoverageStatus,           \* loadNoCoverageArea: "fetching", "ready" or "failed"
    noCoverageLayer,            \* null, or the layer of the areas without coverage
    loadStatus,                 \* "fetching", "ready" or "error": loadGridData and the loading box
    searchIndex,                \* the items buildSearchIndex made
    pendingGridSelection,       \* null, or the names read from the startup URL
    restoreTimer,               \* null, or the features the 200 ms timer will select
    selectedGridMap,            \* the Map, as its entries in insertion order
    highlightLayer,             \* null, or the features the highlight layer shows
    locationSearch,             \* window.location.search, as the list of pairs it parses to
    shareLinkVisible,           \* the share panel is not hidden
    shareLinkFeedback,          \* the text of the feedback line of the share panel
    shareLinkFeedbackTimer,     \* the pending 3000 ms timers of setShareLinkFeedback
    activeElement,              \* the element that has the keyboard focus
    historyLength,              \* window.history.length: the entries of the session history
    polygonLayer,               \* null, or the rendered features in layer order
    labelLayer,                 \* null, or the features addPolygonLabels was given
    mapView,                    \* map.getZoom() and map.getBounds()
    debouncedUpdateInstalled,   \* setupEventListeners has swapped the zoomend/moveend listener
    debounceTimeout,            \* the pending timers of debouncedUpdate
    maxToRender,                \* CONFIG.maxGridsToRender as updateGridDisplay reads it
    rectangleSelectState,       \* active, startLatLng, lastLatLng, rectangle, hasMoved, draggingWasEnabled
    mapDragging,                \* map.dragging.enabled()
    rectanglesOnMap,            \* the selection rectangles the map holds
    suppressNextGridClick,
    suppressNextGridClickTimer, \* the variable holds a timer id (it is not null)
    pendingSuppressTimers,      \* the 250 ms timers set and neither fired nor cleared
    lastOp                      \* the handler that ran last, its input and what it found

loadVars == <<gridData, loadStatus, searchIndex, pendingGridSelection, restoreTimer,
              noCoverageStatus, noCoverageLayer>>
selectionVars == <<selectedGridMap, highlightLayer, locationSearch, shareLinkVisible,
                   shareLinkFeedback, shareLinkFeedbackTimer, activeElement, historyLength>>
viewVars == <<polygonLayer, labelLayer, mapView, debouncedUpdateInstalled, debounceTimeout,
              maxToRender>>
rectVars == <<rectangleSelectState, mapDragging, rectanglesOnMap>>
suppressVars == <<suppressNextGridClick, suppressNextGridClickTimer, pendingSuppressTimers>>

vars == <<loadVars, selectionVars, viewVars, rectVars, suppressVars, lastOp>>

IdleRectangleState ==
    [active |-> FALSE, startLatLng |-> None, lastLatLng |-> None,
     rectangle |-> None, hasMoved |-> FALSE, draggingWasEnabled |-> TRUE]

\* what a handler leaves behind for the properties to read: its name and
\* the branch it took
Op(name, branch) == [op |-> name, branch |-> branch]

(* ------------------------------------------------------------------ *)
(* The selection store                                                  *)
(* ------------------------------------------------------------------ *)
StoreKeys(store) == {store[i].key : i \in DOMAIN store}

StoreHas(store, key) == \E i \in DOMAIN store : store[i].key = key

StoreDelete(store, key) == SelectSeq(store, LAMBDA e : e.key # key)

\* a set that appends whether or not the key is there
StoreAppend(store, entry) == Append(store, entry)

\* Map.prototype.set: an existing key keeps its place
StoreSet(store, entry) ==
    IF StoreHas(store, entry.key)
    THEN [i \in DOMAIN store |-> IF store[i].key = entry.key THEN entry ELSE store[i]]
    ELSE Append(store, entry)

\* the centroid of every feature, computed once
CentroidTable == [f \in FeatureIds |-> getPolygonCentroid(Feature(f).geometry)]

\* an entry keyed by the name as the dataset spells it
EntryKeyedByName(f) ==
    [key |-> NameOf(f), feature |-> f, name |-> NameOf(f), centroid |-> CentroidTable[f]]

\* the entry selectedGridMap.set stores for a feature
EntryOf(f) ==
    [key |-> UpperOf(f), feature |-> f, name |-> NameOf(f), centroid |-> CentroidTable[f]]

\* getSelectedEntries().map(entry => entry.feature)
getSelectedFeatures(store) == [i \in DOMAIN store |-> store[i].feature]

getSelectedNamesSorted(store) ==
    SortSeq([i \in DOMAIN store |-> store[i].name], LocaleLess)

\* findFeaturesInBounds of the whole dataset for every rectangle the
\* pointer can span, computed once
InBoundsTable ==
    [a \in PointerPositions |-> [b \in PointerPositions |->
        findFeaturesInBounds([i \in FeatureIds |-> i], latLngBounds(a, b))]]

\* isLatLngInFeature for every pointer position and feature, computed once
ContainsTable ==
    [p \in PointerPositions |-> [f \in FeatureIds |-> isLatLngInFeature(p, Feature(f))]]

\* a candidate search that stops at the first rendered feature containing
\* the point
findFirstCandidateAtLatLng(layer, latlng) ==
    IF layer = None THEN <<>>
    ELSE LET found == SelectSeq(layer[1], LAMBDA f : ContainsTable[latlng][f])
         IN  IF found = <<>> THEN <<>> ELSE <<Head(found)>>

\* findGridCandidatesAtLatLng: the rendered features containing the point
findGridCandidatesAtLatLng(layer, latlng) ==
    IF layer = None THEN <<>>
    ELSE SelectSeq(layer[1], LAMBDA f : ContainsTable[latlng][f])

\* a candidate list made of the point-in-polygon matches alone, without the
\* feature whose listener ran
clickCandidatesFoundOnly(layer, feature, latlng) ==
    dedupeFeaturesByName(IF latlng # None THEN findGridCandidatesAtLatLng(layer, latlng[1])
                         ELSE <<>>)

\* processGridClick up to uniqueCandidates
clickCandidates(layer, feature, latlng) ==
    LET found == IF latlng # None THEN findGridCandidatesAtLatLng(layer, latlng[1]) ELSE <<>>
        candidates == IF feature \in Range(found) THEN found ELSE <<feature>> \o found
    IN  dedupeFeaturesByName(candidates)

RECURSIVE deleteAll(_, _)
deleteAll(store, keys) ==
    IF keys = <<>> THEN store
    ELSE deleteAll(StoreDelete(store, Head(keys)), Tail(keys))

RECURSIVE addAbsent(_, _)
addAbsent(store, features) ==
    IF features = <<>> THEN store
    ELSE addAbsent(IF StoreHas(store, UpperOf(Head(features))) THEN store
                   ELSE StoreSet(store, EntryOf(Head(features))),
                   Tail(features))

\* a toggle that adds the candidates that are absent and removes none
toggleCandidatesNoRemoval(store, uniqueCandidates) == addAbsent(store, uniqueCandidates)

\* processGridClick, lines 1101-1147: the store after the toggle
toggleCandidates(store, uniqueCandidates) ==
    LET present == SelectSeq(uniqueCandidates, LAMBDA f : StoreHas(store, UpperOf(f)))
        namesToRemove == [i \in DOMAIN present |-> UpperOf(present[i])]
        featuresToAdd == SelectSeq(uniqueCandidates, LAMBDA f : ~StoreHas(store, UpperOf(f)))
    IN  addAbsent(deleteAll(store, namesToRemove), featuresToAdd)

\* what the toggle did: only removals, only additions, or both
clickBranch(store, uniqueCandidates) ==
    LET present == {f \in Range(uniqueCandidates) : StoreHas(store, UpperOf(f))}
        absent == Range(uniqueCandidates) \ present
    IN  IF present # {} /\ absent # {} THEN "mixed"
        ELSE IF present # {} THEN "removed" ELSE "added"

processGridClickStore(store, layer, feature, latlng) ==
    toggleCandidates(store, clickCandidates(layer, feature, latlng))

\* an updateSelection loop that sets every feature's entry, present or not
RECURSIVE setEachOverwriting(_, _, _)
setEachOverwriting(store, features, replace) ==
    IF features = <<>> THEN store
    ELSE setEachOverwriting(StoreSet(store, EntryOf(Head(features))),
                            Tail(features), replace)

\* updateSelection, lines 1599-1624: the store after the loop
RECURSIVE setEach(_, _, _)
setEach(store, features, replace) ==
    IF features = <<>> THEN store
    ELSE setEach(IF ~replace /\ StoreHas(store, UpperOf(Head(features))) THEN store
                 ELSE StoreSet(store, EntryOf(Head(features))),
                 Tail(features), replace)

\* an updateSelection that clears the store whatever replace is
updateSelectionAlwaysClears(store, features, replace) ==
    IF features = <<>> THEN store ELSE setEach(<<>>, features, TRUE)

updateSelectionStore(store, features, replace) ==
    IF features = <<>> THEN store
    ELSE setEach(IF replace THEN <<>> ELSE store, features, replace)


(* ------------------------------------------------------------------ *)
(* Rendering                                                            *)
(* ------------------------------------------------------------------ *)
\* refreshHighlightForCurrentZoom
refreshHighlightForCurrentZoom(store, highlight) ==
    IF Len(store) = 0 THEN None
    ELSE IF highlight # None THEN highlight
    ELSE Some(getSelectedFeatures(store))

\* a display that renders every visible grid
truncateNothing(visibleGrids) == visibleGrids

\* visibleGrids.splice(maxToRender)
truncateToCap(visibleGrids) ==
    IF Len(visibleGrids) > maxToRender
    THEN SubSeq(visibleGrids, 1, maxToRender) ELSE visibleGrids

\* a display that renders at every zoom
polygonLayerIgnoringMinZoom(view, data, layer) ==
    IF data = None THEN layer
    ELSE LET visibleGrids == getVisibleGrids(data[1], view.bounds)
         IN  IF Len(visibleGrids) = 0 THEN None
             ELSE Some(SubSeq(visibleGrids, 1, Min({Len(visibleGrids), maxToRender})))

\* updateGridDisplay: the polygon layer it leaves
polygonLayerAfterUpdate(view, data, layer) ==
    IF view.zoom < minZoomForGrids THEN None
    ELSE IF data = None THEN layer
    ELSE LET visibleGrids == truncateToCap(getVisibleGrids(data[1], view.bounds))
         IN  IF Len(visibleGrids) = 0 THEN None ELSE Some(visibleGrids)

\* updateGridDisplay: the label layer it leaves.  clearGrids and an empty
\* list destroy it; renderGridsAsPolygons labels the rendered grids from
\* labelZoomThreshold on and destroys the layer below it
labelLayerAfterUpdate(view, data, labels) ==
    IF view.zoom < minZoomForGrids THEN None
    ELSE IF data = None THEN labels
    ELSE LET visibleGrids == truncateToCap(getVisibleGrids(data[1], view.bounds))
         IN  IF Len(visibleGrids) = 0 THEN None
             ELSE IF view.zoom >= labelZoomThreshold THEN Some(visibleGrids)
             ELSE None

\* a display that takes the highlight off the map below the minimum zoom,
\* as it does the grid polygons
highlightClearedBelowMinZoom(view, data, store, highlight) ==
    IF view.zoom < minZoomForGrids THEN None
    ELSE IF data = None THEN highlight
    ELSE refreshHighlightForCurrentZoom(store, highlight)

\* updateGridDisplay: the highlight layer it leaves
highlightAfterUpdate(view, data, store, highlight) ==
    IF view.zoom >= minZoomForGrids /\ data = None THEN highlight
    ELSE refreshHighlightForCurrentZoom(store, highlight)

\* a refresh that leaves the highlight layer as it was
RefreshWithoutHighlight(store) ==
    /\ highlightLayer' = highlightLayer
    /\ locationSearch' = searchParamsAfterUpdate(locationSearch,
                            IF Len(store) = 0 THEN <<>> ELSE getSelectedNamesSorted(store))
    /\ shareLinkVisible' = (Len(store) # 0)
    /\ shareLinkFeedback' = IF Len(store) = 0 THEN <<>> ELSE shareLinkFeedback
    /\ shareLinkFeedbackTimer' = IF Len(store) = 0 THEN 0 ELSE shareLinkFeedbackTimer
    /\ UNCHANGED <<activeElement, historyLength>>

\* showShareLink: the element with the keyboard focus afterwards.  With
\* focusShareLink the first option button is focused when several grids are
\* selected, the link input otherwise
showShareLinkFocus(count, focusShareLink, active) ==
    IF ~focusShareLink THEN active
    ELSE IF count > 1 THEN "share-option"
    ELSE "share-link-input"

\* refreshSelectionState on the store as it now is: highlight, address bar
\* and share panel; hideShareLink also empties the feedback line and
\* cancels its timer
RefreshSelectionStateWith(store, focusShareLink) ==
    IF Len(store) = 0
    THEN /\ highlightLayer' = None
         /\ locationSearch' = searchParamsAfterUpdate(locationSearch, <<>>)
         /\ shareLinkVisible' = FALSE
         /\ shareLinkFeedback' = <<>>
         /\ shareLinkFeedbackTimer' = 0
         /\ UNCHANGED <<activeElement, historyLength>>
    ELSE /\ highlightLayer' = Some(getSelectedFeatures(store))
         /\ locationSearch' =
                searchParamsAfterUpdate(locationSearch, getSelectedNamesSorted(store))
         /\ shareLinkVisible' = TRUE
         /\ activeElement' = showShareLinkFocus(Len(store), focusShareLink, activeElement)
         /\ UNCHANGED historyLength
         /\ UNCHANGED <<shareLinkFeedback, shareLinkFeedbackTimer>>

\* refreshSelectionState called with the default focusShareLink: true
RefreshSelectionStateFocusing(store) == RefreshSelectionStateWith(store, TRUE)

\* refreshSelectionState as its callers call it: processGridClick,
\* updateSelection from the rectangle commit and from the restore,
\* removeGridFromSelection and clearSelection all pass focusShareLink: false
RefreshSelectionState(store) == RefreshSelectionStateWith(store, FALSE)

\* buildSearchIndex
buildSearchIndex(features) ==
    LET items == [i \in DOMAIN features |->
                    [name |-> UpperOf(features[i]), originalName |-> NameOf(features[i]),
                     feature |-> features[i],
                     centroid |-> getPolygonCentroid(Feature(features[i]).geometry)]]
    IN  SelectSeq(items, LAMBDA item : item.centroid # None)

\* applyPendingGridSelection: the features of the first index item of each
\* pending name that has one
pendingMatches(pending, index) ==
    LET found == SelectSeq(pending, LAMBDA n : \E i \in DOMAIN index : index[i].name = n)
    IN  [k \in DOMAIN found |->
            index[CHOOSE i \in DOMAIN index :
                    /\ index[i].name = found[k]
                    /\ \A j \in 1..(i - 1) : index[j].name # found[k]].feature]

\* computeBoundsForFeatures and map.fitBounds with its padding: the box of
\* every vertex of the features, one degree wider on each side
fitBoundsView(features) ==
    LET rings(f) == LET g == Feature(f).geometry
                    IN  IF g.type = "Polygon" THEN Range(g.coordinates)
                        ELSE UNION {Range(g.coordinates[k]) : k \in DOMAIN g.coordinates}
        vertices == UNION {Range(r) : r \in UNION {rings(f) : f \in Range(features)}}
    IN  [zoom |-> 5,
         bounds |-> [south |-> Min({v[2] : v \in vertices}) - 1,
                     north |-> Max({v[2] : v \in vertices}) + 1,
                     west |-> Min({v[1] : v \in vertices}) - 1,
                     east |-> Max({v[1] : v \in vertices}) + 1]]

(* ------------------------------------------------------------------ *)
(* Startup                                                              *)
(* ------------------------------------------------------------------ *)
\* after the DOMContentLoaded handler: the URL is read, the map is up and
\* the dataset fetch is in flight
Init ==
    /\ locationSearch \in {parseQuery(search) : search \in StartupSearches}
    /\ pendingGridSelection = gridParamsOf(locationSearch)
    /\ gridData = None
    /\ noCoverageStatus = "fetching"
    /\ noCoverageLayer = None
    /\ loadStatus = "fetching"
    /\ searchIndex = <<>>
    /\ restoreTimer = None
    /\ selectedGridMap = <<>>
    /\ highlightLayer = None
    /\ shareLinkVisible = FALSE
    /\ shareLinkFeedback = <<>>
    /\ shareLinkFeedbackTimer = 0
    /\ activeElement = "body"
    /\ historyLength = 1
    /\ polygonLayer = None
    /\ labelLayer = None
    /\ mapView = InitialView
    /\ debouncedUpdateInstalled = FALSE
    /\ debounceTimeout = 0
    /\ maxToRender = maxGridsToRender
    /\ rectangleSelectState = IdleRectangleState
    /\ mapDragging = TRUE
    /\ rectanglesOnMap = 0
    /\ suppressNextGridClick = FALSE
    /\ suppressNextGridClickTimer = FALSE
    /\ pendingSuppressTimers = 0
    /\ lastOp = Op("DOMContentLoaded", "")

\* loadGridData, the fetch and the parse succeeded: display, search index,
\* pending selection, loading box hidden
LoadGridDataOk ==
    /\ loadStatus = "fetching"
    /\ LET data == Some([i \in FeatureIds |-> i])
           index == buildSearchIndex(data[1])
           hasPending == pendingGridSelection # None /\ Len(pendingGridSelection[1]) > 0
           matches == IF hasPending THEN pendingMatches(pendingGridSelection[1], index)
                      ELSE <<>>
       IN  /\ gridData' = data
           /\ polygonLayer' = polygonLayerAfterUpdate(mapView, data, polygonLayer)
           /\ labelLayer' = labelLayerAfterUpdate(mapView, data, labelLayer)
           /\ highlightLayer' = highlightAfterUpdate(mapView, data, selectedGridMap, highlightLayer)
           /\ searchIndex' = index
           /\ IF ~hasPending \/ Len(index) = 0
              THEN UNCHANGED <<pendingGridSelection, restoreTimer>>
              ELSE /\ pendingGridSelection' = None
                   /\ restoreTimer' = IF Len(matches) = 0 THEN restoreTimer ELSE Some(matches)
    /\ loadStatus' = "ready"
    /\ lastOp' = Op("loadGridData", "ok")
    /\ UNCHANGED <<selectedGridMap, locationSearch, shareLinkVisible,
                   shareLinkFeedback, shareLinkFeedbackTimer, activeElement, historyLength, mapView,
                   debouncedUpdateInstalled, debounceTimeout, maxToRender,
                   noCoverageStatus, noCoverageLayer, rectVars, suppressVars>>

\* loadGridData, had a failure left the load to be tried again
LoadGridDataFailRetrying ==
    /\ loadStatus = "fetching"
    /\ loadStatus' = "fetching"
    /\ lastOp' = Op("loadGridData", "failed")
    /\ UNCHANGED <<noCoverageStatus, noCoverageLayer,
                   gridData, searchIndex, pendingGridSelection, restoreTimer, selectionVars,
                   viewVars, rectVars, suppressVars>>

\* loadGridData, the fetch failed, the status was not OK or the body did not
\* parse: showError
LoadGridDataFail ==
    /\ loadStatus = "fetching"
    /\ loadStatus' = "error"
    /\ lastOp' = Op("loadGridData", "failed")
    /\ UNCHANGED <<noCoverageStatus, noCoverageLayer,
                   gridData, searchIndex, pendingGridSelection, restoreTimer, selectionVars,
                   viewVars, rectVars, suppressVars>>

\* a debounce that sets a new timer without cancelling the pending one
debounceWithoutCancel(timeout) == IF timeout < 2 THEN timeout + 1 ELSE timeout

\* debounce(func, wait), the function it returns: clearTimeout(timeout) and
\* a new timer, so one timer is pending whatever was pending before
debounce(timeout) == 1

\* the map fires zoomend/moveend at a viewport: the listener bound at the
\* time is updateGridDisplay (initMap) or debouncedUpdate
\* (setupEventListeners).  Leaves the highlight layer to the caller.
ZoomEndMoveEnd(view) ==
    /\ mapView' = view
    /\ IF debouncedUpdateInstalled
       THEN /\ debounceTimeout' = debounce(debounceTimeout)
            /\ UNCHANGED <<polygonLayer, labelLayer>>
       ELSE /\ polygonLayer' = polygonLayerAfterUpdate(view, gridData, polygonLayer)
            /\ labelLayer' = labelLayerAfterUpdate(view, gridData, labelLayer)
            /\ UNCHANGED debounceTimeout

\* a restore that adds the matched features to the selection
RestoreTimerFireAdds ==
    /\ restoreTimer # None
    /\ LET features == restoreTimer[1]
           store == updateSelectionStore(selectedGridMap, features, FALSE)
           view == fitBoundsView(features)
       IN  /\ selectedGridMap' = store
           /\ RefreshSelectionState(store)
           /\ ZoomEndMoveEnd(view)
    /\ restoreTimer' = None
    /\ lastOp' = Op("restore", "")
    /\ UNCHANGED <<noCoverageStatus, noCoverageLayer,
                   gridData, loadStatus, searchIndex, pendingGridSelection,
                   debouncedUpdateInstalled, maxToRender, rectVars, suppressVars>>

\* the timer of applyPendingGridSelection, had it been an interval
RestoreTimerFireRepeating ==
    /\ restoreTimer # None
    /\ LET features == restoreTimer[1]
           store == updateSelectionStore(selectedGridMap, features, TRUE)
           view == fitBoundsView(features)
       IN  /\ selectedGridMap' = store
           /\ RefreshSelectionState(store)
           /\ ZoomEndMoveEnd(view)
    /\ lastOp' = Op("restore", "")
    /\ UNCHANGED <<loadVars, debouncedUpdateInstalled, maxToRender, rectVars, suppressVars>>

\* the timer of applyPendingGridSelection, had it given way to a selection
\* the user made while it was pending
RestoreTimerFireYieldingToUser ==
    /\ restoreTimer # None
    /\ LET features == restoreTimer[1]
           store == IF Len(selectedGridMap) > 0 THEN selectedGridMap
                    ELSE updateSelectionStore(selectedGridMap, features, TRUE)
           view == fitBoundsView(features)
       IN  /\ selectedGridMap' = store
           /\ RefreshSelectionState(store)
           /\ ZoomEndMoveEnd(view)
    /\ restoreTimer' = None
    /\ lastOp' = Op("restore", "")
    /\ UNCHANGED <<noCoverageStatus, noCoverageLayer,
                   gridData, loadStatus, searchIndex, pendingGridSelection,
                   debouncedUpdateInstalled, maxToRender, rectVars, suppressVars>>

\* the 200 ms timer of applyPendingGridSelection: updateSelection with
\* replace, then map.fitBounds, whose moveend runs updateGridDisplay
RestoreTimerFire ==
    /\ restoreTimer # None
    /\ LET features == restoreTimer[1]
           store == updateSelectionStore(selectedGridMap, features, TRUE)
           view == fitBoundsView(features)
       IN  /\ selectedGridMap' = store
           /\ RefreshSelectionState(store)
           /\ ZoomEndMoveEnd(view)
    /\ restoreTimer' = None
    /\ lastOp' = Op("restore", "")
    /\ UNCHANGED <<noCoverageStatus, noCoverageLayer,
                   gridData, loadStatus, searchIndex, pendingGridSelection,
                   debouncedUpdateInstalled, maxToRender, rectVars, suppressVars>>

(* ------------------------------------------------------------------ *)
(* The viewport                                                         *)
(* ------------------------------------------------------------------ *)
\* a move whose listener truncates the dataset itself to the render cap
MoveEndSplicingDataset(view) ==
    /\ ZoomEndMoveEnd(view)
    /\ highlightLayer' =
           IF debouncedUpdateInstalled THEN highlightLayer
           ELSE highlightAfterUpdate(view, gridData, selectedGridMap, highlightLayer)
    /\ gridData' = IF gridData = None \/ debouncedUpdateInstalled THEN gridData
                   ELSE Some(truncateToCap(gridData[1]))
    /\ lastOp' = Op("moveend", IF ~debouncedUpdateInstalled THEN ""
                                ELSE IF debounceTimeout > 0 THEN "restarted"
                                ELSE "debounced")
    /\ UNCHANGED <<loadStatus, searchIndex, pendingGridSelection, restoreTimer,
                   noCoverageStatus, noCoverageLayer,
                   selectedGridMap, locationSearch, shareLinkVisible,
                   shareLinkFeedback, shareLinkFeedbackTimer, activeElement, historyLength,
                   debouncedUpdateInstalled, maxToRender, rectVars, suppressVars>>

\* the map has moved to a viewport and its zoomend/moveend listener runs:
\* updateGridDisplay.  No other handler reads the viewport, so the move
\* and its listener are one step.
MoveEnd(view) ==
    /\ ZoomEndMoveEnd(view)
    /\ highlightLayer' =
           IF debouncedUpdateInstalled THEN highlightLayer
           ELSE highlightAfterUpdate(view, gridData, selectedGridMap, highlightLayer)
    /\ lastOp' = Op("moveend", IF ~debouncedUpdateInstalled THEN ""
                                ELSE IF debounceTimeout > 0 THEN "restarted"
                                ELSE "debounced")
    /\ UNCHANGED <<loadVars, selectedGridMap, locationSearch, shareLinkVisible,
                   shareLinkFeedback, shareLinkFeedbackTimer, activeElement, historyLength,
                   debouncedUpdateInstalled, maxToRender, rectVars, suppressVars>>


(* ------------------------------------------------------------------ *)
(* Grid clicks                                                          *)
(* ------------------------------------------------------------------ *)
\* the renderer delivers a click to a rendered polygon when the pointer is
\* on its fill or on its stroke
rendererHit(f, p) ==
    LET g == Feature(f).geometry
        onRing(ring) == isPolygonIntersectingBounds(ring, latLngBounds(p, p))
    IN  IF g.type = "Polygon" THEN onRing(g.coordinates[1])
        ELSE \E k \in DOMAIN g.coordinates : onRing(g.coordinates[k][1])

HitTable == [f \in FeatureIds |-> {p \in PointerPositions : rendererHit(f, p)}]

\* the clicks that can reach processGridClick: a rendered feature and the
\* pointer's position on it, or no position
ClickTargets ==
    IF polygonLayer = None THEN {}
    ELSE UNION {{<<f, Some(p)>> : p \in HitTable[f]} \cup {<<f, None>>} :
                f \in Range(polygonLayer[1])}

\* a scheduling that sets the new timer without clearing the one the
\* variable holds
timersWithoutCancel(timer, pending) == pending + 1

\* scheduleSuppressNextGridClick: clearTimeout of the timer the variable
\* holds, then setTimeout
timersAfterSchedule(timer, pending) == (IF timer THEN pending - 1 ELSE pending) + 1

\* scheduleSuppressNextGridClick
ScheduleSuppressNextGridClick ==
    /\ suppressNextGridClick' = TRUE
    /\ suppressNextGridClickTimer' = TRUE
    /\ pendingSuppressTimers' =
           timersAfterSchedule(suppressNextGridClickTimer, pendingSuppressTimers)

\* a click listener that skips a suppressed click without consuming the
\* suppression
ProcessGridClickKeepsSuppression(feature, latlng) ==
    /\ <<feature, latlng>> \in ClickTargets
    /\ IF suppressNextGridClick
       THEN /\ lastOp' = Op("click", "suppressed")
            /\ UNCHANGED <<selectionVars, suppressVars>>
       ELSE LET store == processGridClickStore(selectedGridMap, polygonLayer, feature, latlng)
            IN  /\ selectedGridMap' = store
                /\ IF store # selectedGridMap THEN RefreshSelectionState(store)
                   ELSE UNCHANGED <<highlightLayer, locationSearch, shareLinkVisible,
                                shareLinkFeedback, shareLinkFeedbackTimer, activeElement, historyLength>>
                /\ lastOp' = Op("click", clickBranch(selectedGridMap,
                                              clickCandidates(polygonLayer, feature, latlng)))
                /\ UNCHANGED suppressVars
    /\ UNCHANGED <<loadVars, viewVars, rectVars>>

\* the click listener of a rendered polygon: processGridClick(feature,
\* event, {centerMap: false})
ProcessGridClick(feature, latlng) ==
    /\ <<feature, latlng>> \in ClickTargets
    /\ IF suppressNextGridClick
       THEN /\ suppressNextGridClick' = FALSE
            /\ suppressNextGridClickTimer' = FALSE
            /\ pendingSuppressTimers' = IF suppressNextGridClickTimer
                                        THEN pendingSuppressTimers - 1
                                        ELSE pendingSuppressTimers
            /\ lastOp' = Op("click", "suppressed")
            /\ UNCHANGED selectionVars
       ELSE LET store == processGridClickStore(selectedGridMap, polygonLayer, feature, latlng)
            IN  /\ selectedGridMap' = store
                /\ IF store # selectedGridMap THEN RefreshSelectionState(store)
                   ELSE UNCHANGED <<highlightLayer, locationSearch, shareLinkVisible,
                                shareLinkFeedback, shareLinkFeedbackTimer, activeElement, historyLength>>
                /\ lastOp' = Op("click", clickBranch(selectedGridMap,
                                              clickCandidates(polygonLayer, feature, latlng)))
                /\ UNCHANGED suppressVars
    /\ UNCHANGED <<loadVars, viewVars, rectVars>>

\* the 250 ms timer of scheduleSuppressNextGridClick
SuppressTimerFire ==
    /\ pendingSuppressTimers > 0
    /\ pendingSuppressTimers' = pendingSuppressTimers - 1
    /\ suppressNextGridClick' = FALSE
    /\ suppressNextGridClickTimer' = FALSE
    /\ lastOp' = Op("suppressTimer", "")
    /\ UNCHANGED <<loadVars, selectionVars, viewVars, rectVars>>

(* ------------------------------------------------------------------ *)
(* Rectangle selection                                                  *)
(* ------------------------------------------------------------------ *)
\* a pointer-down handler that starts a rectangle whatever the modifier and
\* the dataset
OnRectangleMouseDownUnguarded(shiftKey, latlng) ==
    /\ rectanglesOnMap < MaxRectangles
    /\ rectangleSelectState' =
           [active |-> TRUE, startLatLng |-> Some(latlng), lastLatLng |-> Some(latlng),
            rectangle |-> Some(latLngBounds(latlng, latlng)), hasMoved |-> FALSE,
            draggingWasEnabled |-> mapDragging]
    /\ mapDragging' = FALSE
    /\ rectanglesOnMap' = rectanglesOnMap + 1
    /\ lastOp' = Op("mousedown", IF ~shiftKey THEN "noshift"
                                  ELSE IF gridData = None THEN "nodata" ELSE "started")
    /\ UNCHANGED <<loadVars, selectionVars, viewVars, suppressVars>>

\* onRectangleMouseDown
OnRectangleMouseDown(shiftKey, latlng) ==
    /\ IF ~shiftKey \/ gridData = None
       THEN UNCHANGED rectVars
       ELSE /\ rectanglesOnMap < MaxRectangles
            /\ rectangleSelectState' =
                   [active |-> TRUE, startLatLng |-> Some(latlng), lastLatLng |-> Some(latlng),
                    rectangle |-> Some(latLngBounds(latlng, latlng)), hasMoved |-> FALSE,
                    draggingWasEnabled |-> mapDragging]
            /\ mapDragging' = FALSE
            /\ rectanglesOnMap' = rectanglesOnMap + 1
    /\ lastOp' = Op("mousedown", IF ~shiftKey THEN "noshift"
                                  ELSE IF gridData = None THEN "nodata" ELSE "started")
    /\ UNCHANGED <<loadVars, selectionVars, viewVars, suppressVars>>

\* onRectangleMouseMove
OnRectangleMouseMove(latlng) ==
    /\ IF ~rectangleSelectState.active \/ rectangleSelectState.rectangle = None
       THEN UNCHANGED rectangleSelectState
       ELSE rectangleSelectState' =
                [rectangleSelectState EXCEPT
                    !.hasMoved = TRUE,
                    !.lastLatLng = Some(latlng),
                    !.rectangle = Some(latLngBounds(rectangleSelectState.startLatLng[1], latlng))]
    /\ lastOp' = Op("mousemove", "")
    /\ UNCHANGED <<loadVars, selectionVars, viewVars, mapDragging, rectanglesOnMap, suppressVars>>

\* onRectangleMouseLeave
OnRectangleMouseLeave ==
    /\ IF ~rectangleSelectState.active
       THEN UNCHANGED rectangleSelectState
       ELSE rectangleSelectState' = [rectangleSelectState EXCEPT !.hasMoved = TRUE]
    /\ lastOp' = Op("mouseleave", IF ~rectangleSelectState.active THEN "inactive"
                                   ELSE IF rectangleSelectState.hasMoved THEN "moved"
                                   ELSE "unmoved")
    /\ UNCHANGED <<loadVars, selectionVars, viewVars, mapDragging, rectanglesOnMap, suppressVars>>

\* a reset that leaves the gesture active
ResetRectangleSelectionStaysActive ==
    /\ rectanglesOnMap' = IF rectangleSelectState.rectangle # None
                          THEN rectanglesOnMap - 1 ELSE rectanglesOnMap
    /\ rectangleSelectState' = [IdleRectangleState EXCEPT !.active = TRUE]
    /\ mapDragging' = IF rectangleSelectState.draggingWasEnabled THEN TRUE ELSE mapDragging

\* resetRectangleSelection
ResetRectangleSelection ==
    /\ rectanglesOnMap' = IF rectangleSelectState.rectangle # None
                          THEN rectanglesOnMap - 1 ELSE rectanglesOnMap
    /\ rectangleSelectState' = IdleRectangleState
    /\ mapDragging' = IF rectangleSelectState.draggingWasEnabled THEN TRUE ELSE mapDragging

\* completeRectangleSelection, lines 1493-1518: the features handed to
\* updateSelection, or none when it returns before the call
rectangleCommitFeatures(store, data, startLatLng, finalLatLng, hasMoved) ==
    IF ~hasMoved \/ startLatLng = None \/ finalLatLng = None THEN <<>>
    ELSE LET selectedFeatures == IF data = None THEN <<>>
                                 ELSE InBoundsTable[startLatLng[1]][finalLatLng[1]]
             replaceSelection == Len(store) = 0
             newFeatures == SelectSeq(selectedFeatures,
                                LAMBDA f : replaceSelection \/ ~StoreHas(store, UpperOf(f)))
         IN  IF ~replaceSelection /\ Len(newFeatures) = 0 THEN <<>> ELSE selectedFeatures

\* the branch a pointer-up takes
commitBranch(finalLatLng) ==
    IF ~rectangleSelectState.active THEN "inactive"
    ELSE IF ~rectangleSelectState.hasMoved THEN "unmoved"
    ELSE IF rectangleCommitFeatures(selectedGridMap, gridData,
                rectangleSelectState.startLatLng, finalLatLng, TRUE) = <<>> THEN "nochange"
    ELSE IF Len(selectedGridMap) = 0 THEN "replace" ELSE "add"

\* a completion that arms the click suppression whether or not the gesture
\* moved
CompleteRectangleSelectionAlwaysSuppresses(finalLatLng) ==
    LET hasMoved == rectangleSelectState.hasMoved
        features == rectangleCommitFeatures(selectedGridMap, gridData,
                        rectangleSelectState.startLatLng, finalLatLng, hasMoved)
        store == updateSelectionStore(selectedGridMap, features, Len(selectedGridMap) = 0)
    IN  /\ ResetRectangleSelection
        /\ ScheduleSuppressNextGridClick
        /\ selectedGridMap' = store
        /\ IF Len(features) > 0 THEN RefreshSelectionState(store)
           ELSE UNCHANGED <<highlightLayer, locationSearch, shareLinkVisible,
                                shareLinkFeedback, shareLinkFeedbackTimer, activeElement, historyLength>>

\* completeRectangleSelection
CompleteRectangleSelection(finalLatLng) ==
    LET hasMoved == rectangleSelectState.hasMoved
        features == rectangleCommitFeatures(selectedGridMap, gridData,
                        rectangleSelectState.startLatLng, finalLatLng, hasMoved)
        store == updateSelectionStore(selectedGridMap, features, Len(selectedGridMap) = 0)
    IN  /\ ResetRectangleSelection
        /\ IF hasMoved THEN ScheduleSuppressNextGridClick ELSE UNCHANGED suppressVars
        /\ selectedGridMap' = store
        /\ IF Len(features) > 0 THEN RefreshSelectionState(store)
           ELSE UNCHANGED <<highlightLayer, locationSearch, shareLinkVisible,
                                shareLinkFeedback, shareLinkFeedbackTimer, activeElement, historyLength>>

\* onRectangleMouseUp: the map's mouseup listener
OnRectangleMouseUp(latlng) ==
    /\ IF ~rectangleSelectState.active
       THEN UNCHANGED <<selectionVars, rectVars, suppressVars>>
       ELSE CompleteRectangleSelection(
                IF latlng # None THEN latlng ELSE rectangleSelectState.lastLatLng)
    /\ lastOp' = Op("mouseup", commitBranch(latlng))
    /\ UNCHANGED <<loadVars, viewVars>>

\* onDocumentMouseUp: the document's mouseup listener; mouseEventToLatLng
\* gives a position or throws
OnDocumentMouseUp(latlng) ==
    /\ IF ~rectangleSelectState.active
       THEN UNCHANGED <<selectionVars, rectVars, suppressVars>>
       ELSE CompleteRectangleSelection(
                IF latlng # None THEN latlng
                ELSE IF rectangleSelectState.lastLatLng # None
                     THEN rectangleSelectState.lastLatLng
                     ELSE rectangleSelectState.startLatLng)
    /\ lastOp' = Op("documentmouseup", commitBranch(
                        IF latlng # None THEN latlng ELSE rectangleSelectState.lastLatLng))
    /\ UNCHANGED <<loadVars, viewVars>>

(* ------------------------------------------------------------------ *)
(* The share panel's buttons                                            *)
(* ------------------------------------------------------------------ *)
\* a removal that refreshes the selection state also when the name is not
\* selected
RemoveGridFromSelectionAlwaysRefreshes(gridName) ==
    /\ LET upper == toUpperCase(gridName)
           store == IF gridName = <<>> THEN selectedGridMap
                    ELSE StoreDelete(selectedGridMap, upper)
       IN  /\ selectedGridMap' = store
           /\ RefreshSelectionState(store)
    /\ lastOp' = Op("remove", IF gridName = <<>> \/ ~StoreHas(selectedGridMap, toUpperCase(gridName))
                               THEN "absent" ELSE "removed")
    /\ UNCHANGED <<loadVars, viewVars, rectVars, suppressVars>>

\* removeGridFromSelection
RemoveGridFromSelection(gridName) ==
    /\ LET upper == toUpperCase(gridName)
       IN  IF gridName = <<>> \/ ~StoreHas(selectedGridMap, upper)
           THEN UNCHANGED selectionVars
           ELSE /\ selectedGridMap' = StoreDelete(selectedGridMap, upper)
                /\ RefreshSelectionState(StoreDelete(selectedGridMap, upper))
    /\ lastOp' = Op("remove", IF gridName = <<>> \/ ~StoreHas(selectedGridMap, toUpperCase(gridName))
                               THEN "absent" ELSE "removed")
    /\ UNCHANGED <<loadVars, viewVars, rectVars, suppressVars>>

\* clearSelection
ClearSelection ==
    /\ IF Len(selectedGridMap) = 0
       THEN UNCHANGED selectionVars
       ELSE /\ selectedGridMap' = <<>>
            /\ RefreshSelectionState(<<>>)
    /\ lastOp' = Op("clear", IF Len(selectedGridMap) = 0 THEN "empty" ELSE "cleared")
    /\ UNCHANGED <<loadVars, viewVars, rectVars, suppressVars>>

(* ------------------------------------------------------------------ *)
(* The application                                                      *)
(* ------------------------------------------------------------------ *)
Next ==
    \/ LoadGridDataOk
    \/ LoadGridDataFail
    \/ RestoreTimerFire
    \/ \E view \in Views : MoveEnd(view)
    \/ \E t \in ClickTargets : ProcessGridClick(t[1], t[2])
    \/ SuppressTimerFire
    \/ \E shiftKey \in BOOLEAN, p \in PointerPositions : OnRectangleMouseDown(shiftKey, p)
    \/ \E p \in PointerPositions : OnRectangleMouseMove(p)
    \/ OnRectangleMouseLeave
    \/ \E p \in PointerPositions : OnRectangleMouseUp(Some(p))
    \/ \E l \in {Some(p) : p \in PointerPositions} \cup {None} : OnDocumentMouseUp(l)
    \/ \E k \in StoreKeys(selectedGridMap) : shareLinkVisible /\ RemoveGridFromSelection(k)
    \/ shareLinkVisible /\ ClearSelection

Spec == Init /\ [][Next]_vars

(* ------------------------------------------------------------------ *)
(* Properties of the application                                        *)
(* ------------------------------------------------------------------ *)
\* the step ran refreshSelectionState: a click that was not suppressed, the
\* restore timer, a rectangle commit that reached updateSelection, a
\* removal or a clear that found something to delete
RefreshRan ==
    \/ lastOp'.op = "click" /\ lastOp'.branch # "suppressed"
    \/ lastOp'.op = "restore"
    \/ lastOp'.op \in {"mouseup", "documentmouseup"} /\ lastOp'.branch \in {"replace", "add"}
    \/ lastOp' = Op("remove", "removed")
    \/ lastOp' = Op("clear", "cleared")

\* C1: whatever rendered polygon is clicked and wherever on it, processing
\* the click twice in a row (same polygon layer, no suppression armed)
\* leaves the store with the key set it had before the first click (which
\* the first click did change), also when some of the overlapping
\* candidates were selected and some were not.
ToggleTwiceRestoresKeys ==
    \A t \in ClickTargets :
        LET once == processGridClickStore(selectedGridMap, polygonLayer, t[1], t[2])
            twice == processGridClickStore(once, polygonLayer, t[1], t[2])
        IN  /\ StoreKeys(once) # StoreKeys(selectedGridMap)
            /\ StoreKeys(twice) = StoreKeys(selectedGridMap)

\* a click has just removed some candidates and added others
ToggleMixedHappened ==
    /\ lastOp = Op("click", "mixed")
    /\ Cardinality(StoreKeys(selectedGridMap)) = 1

\* the keys of the dataset's features that meet the rectangle from a to b
RectangleKeys(a, b) ==
    {toUpperCase(getGridName(Feature(f))) :
        f \in {g \in FeatureIds : doesFeatureIntersectBounds(Feature(g), latLngBounds(a, b))}}

\* C2: a moved shift-drag that ends over a non-empty set R of intersecting
\* grids leaves exactly R selected when nothing was selected before, and
\* exactly the previous selection together with R otherwise; the previous
\* selection is always kept.
RectangleCommitReplacesOrAdds ==
    [][\A latlng \in {Some(p) : p \in PointerPositions} \cup {None} :
        LET start == rectangleSelectState.startLatLng[1]
            final == IF latlng # None THEN latlng[1] ELSE rectangleSelectState.lastLatLng[1]
            R == RectangleKeys(start, final)
            before == StoreKeys(selectedGridMap)
        IN  (/\ rectangleSelectState.active
             /\ rectangleSelectState.hasMoved
             /\ OnRectangleMouseUp(latlng) \/ OnDocumentMouseUp(latlng)
             /\ R # {})
            => /\ StoreKeys(selectedGridMap') = IF before = {} THEN R ELSE before \cup R
               /\ before \subseteq StoreKeys(selectedGridMap')]_vars

\* a rectangle commit has just added grids to a selection that had some
RectangleAddHappened ==
    /\ lastOp.op \in {"mouseup", "documentmouseup"}
    /\ lastOp.branch = "add"
    /\ Cardinality(StoreKeys(selectedGridMap)) = 2

\* how often a parameter name occurs in the query
paramCount(params, name) == Cardinality({i \in DOMAIN params : params[i][1] = name})

\* the query has the shape the names call for
QueryShape(params, names) ==
    LET upper == {toUpperCase(n) : n \in names}
        grid == paramsGet(params, GRID)
        grids == paramsGet(params, GRIDS)
    IN  IF upper = {} THEN grid = None /\ grids = None
        ELSE IF Cardinality(upper) = 1
        THEN /\ grids = None
             /\ paramCount(params, GRID) = 1
             /\ grid # None /\ grid[1] \in upper
        ELSE /\ grid = None
             /\ paramCount(params, GRIDS) = 1
             /\ grids # None
             /\ LET parts == split(grids[1], ",")
                IN  /\ Range(parts) = upper
                    /\ Len(parts) = Cardinality(upper)
                    /\ \A i \in 1..(Len(parts) - 1) : CodeUnitLess(parts[i], parts[i + 1])

\* C4: after every update of the address bar the query has neither grid nor
\* grids when nothing is selected, grid alone (the upper-cased name) when
\* one grid is, and grids alone (the upper-cased names, unique, sorted,
\* joined by commas) when several are; never both, whatever the startup URL.
AddressBarShape ==
    [][RefreshRan =>
        /\ QueryShape(locationSearch',
                      {selectedGridMap'[i].name : i \in DOMAIN selectedGridMap'})
        /\ ~(paramsGet(locationSearch', GRID) # None /\ paramsGet(locationSearch', GRIDS) # None)]_vars

\* the page was opened with both parameters and an update has since left
\* grids alone
AddressBarUpdatedFromBoth ==
    /\ lastOp.op \in {"click", "mouseup", "documentmouseup"}
    /\ Len(selectedGridMap) = 2
    /\ paramsGet(locationSearch, GRIDS) # None
    /\ Len(locationSearch) = 1

\* C5: once a click, a rectangle commit, the restore, a removal or a clear
\* that changed the membership has run, the highlight layer shows exactly
\* the features of the store (and is gone when the store is empty) and the
\* names the URL decodes to are the keys of the store.
RefreshCascade ==
    [][(RefreshRan /\ StoreKeys(selectedGridMap') # StoreKeys(selectedGridMap)) =>
        LET decoded == gridParamsOf(locationSearch')
        IN  /\ IF Len(selectedGridMap') = 0 THEN highlightLayer' = None
               ELSE /\ highlightLayer' # None
                    /\ Range(highlightLayer'[1]) =
                           {selectedGridMap'[i].feature : i \in DOMAIN selectedGridMap'}
            /\ (IF decoded = None THEN {} ELSE Range(decoded[1])) = StoreKeys(selectedGridMap')]_vars

\* a removal has just left one of two selected grids
RemovalRefreshed ==
    /\ lastOp = Op("remove", "removed")
    /\ Len(selectedGridMap) = 1
    /\ highlightLayer # None

\* C8: every key of selectedGridMap is upper case and is the upper-cased
\* name of its entry, which is the upper-cased getGridName of its feature.
KeyInvariant ==
    \A i \in DOMAIN selectedGridMap :
        LET e == selectedGridMap[i]
        IN  /\ \A k \in DOMAIN e.key : ToUpperChar(e.key[k]) = e.key[k]
            /\ e.key = toUpperCase(e.name)
            /\ e.key = toUpperCase(getGridName(Feature(e.feature)))

\* a grid whose name is not upper case in the dataset is selected
LowerCaseNameSelected ==
    \E i \in DOMAIN selectedGridMap : selectedGridMap[i].name # selectedGridMap[i].key

\* C9: the rectangle state becomes active only in a pointer-down with shift
\* held and the dataset loaded; a pointer-down without shift, or with no
\* dataset (still loading, or failed), changes neither the rectangle state
\* nor the map's pan-drag.
RectangleEntryGuard ==
    [][/\ (~rectangleSelectState.active /\ rectangleSelectState'.active)
            => (lastOp' = Op("mousedown", "started") /\ gridData # None)
       /\ (lastOp'.op = "mousedown" /\ lastOp'.branch \in {"noshift", "nodata"})
            => UNCHANGED <<rectangleSelectState, mapDragging>>
       /\ (lastOp'.op = "mousedown" /\ gridData = None)
            => lastOp'.branch \in {"noshift", "nodata"}]_vars

\* a shift pointer-down arrived after the load had failed and found the
\* controller idle
ShiftDownAfterFailedLoad ==
    /\ lastOp = Op("mousedown", "nodata")
    /\ loadStatus = "error"
    /\ ~rectangleSelectState.active
    /\ mapDragging

\* C10, as the specification states it: pan-drag was enabled when the page
\* came up and only the rectangle controller touches it, so it is enabled
\* whenever the controller is idle, and disabled while it is dragging.
PanDragRestored ==
    IF rectangleSelectState.active THEN ~mapDragging ELSE mapDragging

\* the step is a pointer-up that ends a gesture: onRectangleMouseUp or
\* onDocumentMouseUp with rectangleSelectState.active
PointerUpEndsGesture ==
    /\ rectangleSelectState.active
    /\ lastOp'.op \in {"mouseup", "documentmouseup"}

\* C11 as stated: a pointer-up that ends a gesture in which no pointer-move
\* was handled (none since the pointer-down, possibly a pointer-leave as
\* the step before) leaves the store, the URL, the highlight and the
\* click suppression as they were.
NoPointerMoveIsNoOp ==
    [][PointerUpEndsGesture
       /\ (~rectangleSelectState.hasMoved \/ lastOp = Op("mouseleave", "unmoved"))
       => UNCHANGED <<selectionVars, suppressVars>>]_vars

\* C11: a pointer-up that ends a gesture in which neither a pointer-move
\* nor a pointer-leave was handled (hasMoved is false) leaves the store,
\* the URL, the highlight and the share panel unchanged and does not arm
\* the click suppression: the flag and its timer stay as they were, so a
\* click that was not suppressed before the pointer-up is not suppressed
\* after it.
UnmovedGestureIsNoOp ==
    [][PointerUpEndsGesture /\ ~rectangleSelectState.hasMoved
       => /\ UNCHANGED <<selectionVars, suppressVars>>
          /\ rectangleSelectState' = IdleRectangleState]_vars

\* a gesture that never moved has just ended over a rendered grid, with no
\* suppression armed
UnmovedGestureEnded ==
    /\ lastOp.op \in {"mouseup", "documentmouseup"}
    /\ lastOp.branch = "unmoved"
    /\ ~suppressNextGridClick
    /\ ClickTargets # {}

\* the step is a pointer-up that ends a gesture that moved
MovedGestureCommitted ==
    PointerUpEndsGesture /\ rectangleSelectState.hasMoved

\* C12: the pointer-up of a gesture that moved arms the suppression and
\* its 250 ms timer; a grid click handled while the timer is pending
\* changes nothing of the selection, clears the flag and cancels the
\* timer, so the click after it is handled normally; the timer clears the
\* flag, and a click handled with no timer pending toggles the clicked
\* candidates; nothing but the pointer-up of a moved gesture arms the
\* suppression, so one gesture suppresses at most one click.
SuppressionConsumedOnce ==
    [][/\ MovedGestureCommitted => suppressNextGridClick' /\ suppressNextGridClickTimer'
       /\ lastOp'.op = "click" =>
            IF suppressNextGridClickTimer
            THEN /\ lastOp'.branch = "suppressed"
                 /\ UNCHANGED selectionVars
                 /\ ~suppressNextGridClick' /\ ~suppressNextGridClickTimer'
            ELSE /\ lastOp'.branch # "suppressed"
                 /\ StoreKeys(selectedGridMap') # StoreKeys(selectedGridMap)
                 /\ \E t \in ClickTargets :
                        selectedGridMap' =
                            processGridClickStore(selectedGridMap, polygonLayer, t[1], t[2])
       /\ lastOp'.op = "suppressTimer" =>
            ~suppressNextGridClick' /\ ~suppressNextGridClickTimer'
       /\ suppressNextGridClick' /\ ~suppressNextGridClick => MovedGestureCommitted
       /\ suppressNextGridClick' <=> suppressNextGridClickTimer']_vars

\* a click has just been suppressed while something was selected
ClickSuppressedAfterDrag ==
    /\ lastOp = Op("click", "suppressed")
    /\ Len(selectedGridMap) > 0
    /\ ~suppressNextGridClick

\* the pending names that are the name of an item of the search index
matchedNames(pending) ==
    {n \in Range(pending) : \E f \in FeatureIds : UpperOf(f) = n}

\* C14: when the dataset has loaded and the pending names are resolved, the
\* load ends in the ready state whatever the names are, the store is not
\* touched by the resolution itself and the pending list is discarded; if
\* no name matches, no restore is scheduled; if some do, the scheduled
\* restore carries the features of exactly the matched names, and when it
\* runs the keys of the store are exactly those names, whatever was
\* selected in the meantime.
RestoreResolvesMatchedNames ==
    [][/\ (lastOp'.op = "loadGridData" /\ lastOp'.branch = "ok"
           /\ pendingGridSelection # None /\ Len(pendingGridSelection[1]) > 0) =>
             LET matched == matchedNames(pendingGridSelection[1])
             IN  /\ loadStatus' = "ready"
                 /\ UNCHANGED selectionVars
                 /\ pendingGridSelection' = None
                 /\ IF matched = {}
                    THEN restoreTimer' = None
                    ELSE /\ restoreTimer' # None
                         /\ {UpperOf(f) : f \in Range(restoreTimer'[1])} = matched
       /\ lastOp'.op = "restore" =>
             /\ restoreTimer # None
             /\ StoreKeys(selectedGridMap') = {UpperOf(f) : f \in Range(restoreTimer[1])}
             /\ Len(selectedGridMap') = Cardinality(StoreKeys(selectedGridMap'))
             /\ restoreTimer' = None]_vars

\* the restore of a URL that names a grid of the dataset and a name that no
\* grid has has just run
PartialMatchRestored ==
    /\ lastOp.op = "restore"
    /\ StoreKeys(selectedGridMap) = {<<"1", "A">>}
    /\ paramsGet(locationSearch, <<"z">>) # None

\* the upper-cased names of the click's candidates: the rendered features
\* that contain the point, and the feature whose polygon took the click
candidateNames(layer, feature, latlng) ==
    LET containing == IF latlng = None \/ layer = None THEN {}
                      ELSE {f \in Range(layer[1]) : isLatLngInFeature(latlng[1], Feature(f))}
    IN  {toUpperCase(getGridName(Feature(f))) : f \in containing \cup {feature}}

\* C21: for every click that can reach a rendered polygon, the store after
\* the toggle has exactly the keys it had, less the candidate names that
\* were selected, plus the candidate names that were not; the candidates
\* are all the rendered features containing the point (and the clicked
\* one), counted once per upper-cased name.  A click that is not
\* suppressed leaves the store of one such toggle.
ClickTogglesAllCandidates ==
    /\ [](\A t \in ClickTargets :
            LET names == candidateNames(polygonLayer, t[1], t[2])
                keys == StoreKeys(selectedGridMap)
                after == processGridClickStore(selectedGridMap, polygonLayer, t[1], t[2])
            IN  /\ StoreKeys(after) = (keys \ names) \cup (names \ keys)
                /\ Len(after) = Cardinality(StoreKeys(after)))
    /\ [][(lastOp'.op = "click" /\ lastOp'.branch # "suppressed") =>
            \E t \in ClickTargets :
                selectedGridMap' =
                    processGridClickStore(selectedGridMap, polygonLayer, t[1], t[2])]_vars

\* one click has just added two names: the point lies in two rendered
\* grids of different names
ClickAddedTwoCandidates ==
    /\ lastOp.op = "click"
    /\ lastOp.branch = "added"
    /\ Cardinality(StoreKeys(selectedGridMap)) = 2
    /\ highlightLayer # None

\* C26: a failed load of the grid dataset is final: the page shows the error
\* from then on, loadGridData does not run again, the dataset stays
\* unloaded and nothing is rendered, the grids named in the startup URL are
\* never restored, and no rectangle gesture starts.
LoadFailureIsFatal ==
    /\ [][(lastOp'.op = "loadGridData" /\ lastOp'.branch = "failed")
            => loadStatus' = "error"]_vars
    /\ [][loadStatus = "error"
            => /\ loadStatus' = "error"
               /\ lastOp'.op \notin {"loadGridData", "restore"}
               /\ UNCHANGED <<gridData, searchIndex, pendingGridSelection, restoreTimer,
                              selectedGridMap, locationSearch>>]_vars
    /\ [](loadStatus = "error"
            => /\ gridData = None
               /\ polygonLayer = None
               /\ restoreTimer = None
               /\ selectedGridMap = <<>>
               /\ ~rectangleSelectState.active)

\* the load has failed with grids named in the startup URL, and the map
\* has been moved since
MovedAfterFailedLoad ==
    /\ loadStatus = "error"
    /\ lastOp.op = "moveend"
    /\ pendingGridSelection # None
    /\ pendingGridSelection[1] # <<>>

\* C29: a gesture commits once.  The pointer-up handler that finds the
\* gesture active completes it: the store becomes what
\* completeRectangleSelection makes of the rectangle, and the controller is
\* idle afterwards, also when the handler is the document's, the only one
\* to run when the pointer is released outside the map.  A pointer-up
\* handler that runs right after another, as the second of the two does
\* when both receive the event, in either order, finds the controller idle
\* and changes nothing.
GestureCommitsOnce ==
    /\ [][PointerUpEndsGesture
            => \E l \in {Some(p) : p \in PointerPositions} \cup {None} :
                 LET final == IF l # None THEN l
                              ELSE IF rectangleSelectState.lastLatLng # None
                                   THEN rectangleSelectState.lastLatLng
                                   ELSE rectangleSelectState.startLatLng
                     features == rectangleCommitFeatures(selectedGridMap, gridData,
                                     rectangleSelectState.startLatLng, final,
                                     rectangleSelectState.hasMoved)
                 IN  selectedGridMap'
                       = updateSelectionStore(selectedGridMap, features,
                                              Len(selectedGridMap) = 0)]_vars
    /\ [][lastOp'.op \in {"mouseup", "documentmouseup"}
            => rectangleSelectState' = IdleRectangleState]_vars
    /\ [][(/\ lastOp.op \in {"mouseup", "documentmouseup"}
           /\ lastOp'.op \in {"mouseup", "documentmouseup"})
            => /\ lastOp'.branch = "inactive"
               /\ UNCHANGED <<loadVars, selectionVars, viewVars, rectVars, suppressVars>>]_vars

\* the document's handler has run as the second one after a gesture that
\* was committed by the map's
SecondPointerUpIgnored ==
    /\ lastOp = Op("documentmouseup", "inactive")
    /\ suppressNextGridClick
    /\ rectangleSelectState = IdleRectangleState
    /\ Len(selectedGridMap) = 2

\* C31: the share panel follows the selection: after every operation that
\* runs the refresh cascade (and so in every state) the panel is visible
\* exactly when the store is non-empty, and the URL restore shows the panel
\* and leaves the keyboard focus where it was.
SharePanelFollowsSelection ==
    /\ [](shareLinkVisible <=> Len(selectedGridMap) > 0)
    /\ [][RefreshRan => (shareLinkVisible' <=> Len(selectedGridMap') > 0)]_vars
    /\ [][lastOp'.op = "restore" =>
            shareLinkVisible' /\ activeElement' = activeElement]_vars

\* the restore has run: the panel is shown for the restored grids and the
\* focus is still on the document body
RestoreShowedPanelUnfocused ==
    /\ lastOp.op = "restore"
    /\ Len(selectedGridMap) > 0
    /\ shareLinkVisible
    /\ activeElement = "body"

\* C32: once the dataset has loaded and the pending URL restore is resolved
\* (its timer has fired, or the pending names were discarded), in every
\* state between handlers the names of the URL's grid and grids parameters
\* are the keys of the store, also when the URL the page was opened with
\* named only grids the dataset does not have.
UrlAgreesWithStoreAtRest ==
    (loadStatus = "ready" /\ pendingGridSelection = None /\ restoreTimer = None) =>
        LET decoded == gridParamsOf(locationSearch)
        IN  (IF decoded = None THEN {} ELSE Range(decoded[1])) = StoreKeys(selectedGridMap)

\* C33: while the restore timer is pending (the dataset is ready), a click
\* or a rectangle commit is applied as at any other time: the click changes
\* the store, the commit keeps or replaces as its branch says, the URL
\* follows the store and the timer stays pending; when the timer fires,
\* the store holds exactly the entries of the restored features, in the
\* restore's order, and nothing of what the user had selected.
RestoreReplacesUserSelection ==
    [][/\ (restoreTimer # None /\ RefreshRan /\ lastOp'.op # "restore") =>
            LET decoded == gridParamsOf(locationSearch')
            IN  /\ loadStatus = "ready"
                /\ restoreTimer' = restoreTimer
                /\ lastOp'.op = "click" => StoreKeys(selectedGridMap') # StoreKeys(selectedGridMap)
                /\ lastOp'.branch = "add" =>
                       /\ selectedGridMap # <<>>
                       /\ StoreKeys(selectedGridMap) \subseteq StoreKeys(selectedGridMap')
                /\ lastOp'.branch = "replace" => selectedGridMap = <<>> /\ selectedGridMap' # <<>>
                /\ (IF decoded = None THEN {} ELSE Range(decoded[1])) = StoreKeys(selectedGridMap')
       /\ lastOp'.op = "restore" =>
            /\ restoreTimer # None
            /\ selectedGridMap' = updateSelectionStore(<<>>, restoreTimer[1], TRUE)
            /\ \A i \in DOMAIN selectedGridMap' :
                   selectedGridMap'[i].feature \in Range(restoreTimer[1])
            /\ StoreKeys(selectedGridMap') = {UpperOf(f) : f \in Range(restoreTimer[1])}]_vars

\* the user's click or rectangle commit has been applied while the restore
\* timer is pending, and the store holds a grid the restore does not name
UserSelectedBeforeRestore ==
    /\ restoreTimer # None
    /\ lastOp.op \in {"click", "mouseup", "documentmouseup"}
    /\ lastOp.branch \in {"added", "add", "replace"}
    /\ StoreKeys(selectedGridMap) \ {UpperOf(f) : f \in Range(restoreTimer[1])} # {}

\* C34: the map holds at most one selection rectangle; it holds one exactly
\* while the controller is dragging and none once it is idle, whatever the
\* sequence of pointer events, shift pointer-downs that follow one another
\* without a pointer-up included.
OneRectangleWhileDragging ==
    /\ rectanglesOnMap <= 1
    /\ rectanglesOnMap = (IF rectangleSelectState.active THEN 1 ELSE 0)
    /\ rectangleSelectState.active <=> rectangleSelectState.rectangle # None

\* C37: a rectangle commit that adds to a selection that is not empty
\* leaves every entry the store had as it was (its feature, its name, its
\* cached centroid) and where it was; the entries that follow are new, one
\* for every name of the rectangle that was absent.
AddKeepsExistingEntries ==
    [][(lastOp'.op \in {"mouseup", "documentmouseup"} /\ lastOp'.branch = "add") =>
        /\ Len(selectedGridMap) > 0
        /\ Len(selectedGridMap') > Len(selectedGridMap)
        /\ \A i \in DOMAIN selectedGridMap : selectedGridMap'[i] = selectedGridMap[i]
        /\ \A i \in DOMAIN selectedGridMap' :
              i > Len(selectedGridMap) => selectedGridMap'[i].key \notin StoreKeys(selectedGridMap)
        /\ \A latlng \in {Some(p) : p \in PointerPositions} \cup {None} :
              (OnRectangleMouseUp(latlng) \/ OnDocumentMouseUp(latlng)) =>
                  LET final == IF latlng # None THEN latlng[1]
                               ELSE rectangleSelectState.lastLatLng[1]
                      R == RectangleKeys(rectangleSelectState.startLatLng[1], final)
                  IN  {selectedGridMap'[i].key : i \in (DOMAIN selectedGridMap') \ (DOMAIN selectedGridMap)}
                          = R \ StoreKeys(selectedGridMap)]_vars

\* a rectangle commit has just added a grid to a selection whose first
\* entry holds the second of the two features that share a name: the entry
\* still holds that feature
AddKeptSecondVariant ==
    /\ lastOp.op \in {"mouseup", "documentmouseup"}
    /\ lastOp.branch = "add"
    /\ Len(selectedGridMap) = 2
    /\ selectedGridMap[1].feature = 2
    /\ selectedGridMap[1].name = NameOf(2)
    /\ selectedGridMap[1].key = UpperOf(1)

\* C40: the suppression cannot get stuck.  The flag is set exactly when
\* the timer variable holds a timer, and then exactly one 250 ms timer is
\* pending and can fire; arming again while a timer is pending cancels it
\* and starts a new one; a click that consumes the suppression and the
\* timer's firing both leave the flag clear, the variable null and no timer
\* pending.
SuppressionFlagFollowsTimer ==
    /\ [](/\ suppressNextGridClick <=> suppressNextGridClickTimer
          /\ pendingSuppressTimers = (IF suppressNextGridClickTimer THEN 1 ELSE 0)
          /\ suppressNextGridClick => ENABLED SuppressTimerFire)
    /\ [][/\ MovedGestureCommitted =>
               /\ suppressNextGridClick' /\ suppressNextGridClickTimer'
               /\ pendingSuppressTimers' = 1
          /\ (lastOp'.op = "suppressTimer" \/ lastOp' = Op("click", "suppressed")) =>
               /\ suppressNextGridClick
               /\ ~suppressNextGridClick' /\ ~suppressNextGridClickTimer'
               /\ pendingSuppressTimers' = 0]_vars

\* a second gesture has moved while the timer of the first is pending: its
\* pointer-up arms the suppression again
SecondGestureWhileTimerPending ==
    /\ rectangleSelectState.active
    /\ rectangleSelectState.hasMoved
    /\ suppressNextGridClick
    /\ pendingSuppressTimers = 1
    /\ ENABLED (\E p \in PointerPositions : OnRectangleMouseUp(Some(p)))

(* ------------------------------------------------------------------ *)
(* The selection functions called directly                              *)
(* ------------------------------------------------------------------ *)
\* the feature lists a caller can hand to updateSelection
FeatureLists == UNION {[1..n -> FeatureIds] : n \in 0..MaxListLen}

\* the names a caller can hand to removeGridFromSelection
RemovableNames ==
    {<<>>, <<"1","a">>, <<"1","A">>, <<"g","r","i","d">>, <<"z","z">>}

\* the page with the dataset loaded and displayed and nothing selected
ApiInit ==
    /\ locationSearch \in {parseQuery(search) : search \in StartupSearches}
    /\ pendingGridSelection = None
    /\ gridData = Some([i \in FeatureIds |-> i])
    /\ noCoverageStatus = "fetching"
    /\ noCoverageLayer = None
    /\ loadStatus = "ready"
    /\ searchIndex = buildSearchIndex(gridData[1])
    /\ restoreTimer = None
    /\ selectedGridMap = <<>>
    /\ highlightLayer = None
    /\ shareLinkVisible = FALSE
    /\ shareLinkFeedback = <<>>
    /\ shareLinkFeedbackTimer = 0
    /\ activeElement = "body"
    /\ historyLength = 1
    /\ mapView = InitialView
    /\ debouncedUpdateInstalled = FALSE
    /\ debounceTimeout = 0
    /\ maxToRender = maxGridsToRender
    /\ polygonLayer = polygonLayerAfterUpdate(InitialView, gridData, None)
    /\ labelLayer = labelLayerAfterUpdate(InitialView, gridData, None)
    /\ rectangleSelectState = IdleRectangleState
    /\ mapDragging = TRUE
    /\ rectanglesOnMap = 0
    /\ suppressNextGridClick = FALSE
    /\ suppressNextGridClickTimer = FALSE
    /\ pendingSuppressTimers = 0
    /\ lastOp = Op("DOMContentLoaded", "")

\* updateSelection(features, {replace, centerMap: false, focusShareLink: false})
UpdateSelection(features, replace) ==
    /\ IF Len(features) = 0
       THEN UNCHANGED selectionVars
       ELSE /\ selectedGridMap' = updateSelectionStore(selectedGridMap, features, replace)
            /\ RefreshSelectionState(updateSelectionStore(selectedGridMap, features, replace))
    /\ lastOp' = Op("updateSelection", [features |-> features, replace |-> replace])
    /\ UNCHANGED <<loadVars, viewVars, rectVars, suppressVars>>

ApiNext ==
    \/ \E features \in FeatureLists, replace \in BOOLEAN : UpdateSelection(features, replace)
    \/ \E gridName \in RemovableNames : RemoveGridFromSelection(gridName)
    \/ ClearSelection

ApiSpec == ApiInit /\ [][ApiNext]_vars

\* updateSelection has just run with replace on a list in which two
\* features have the same upper-cased name
ReplacedWithDuplicates ==
    /\ lastOp.op = "updateSelection"
    /\ lastOp.branch.replace
    /\ \E i, j \in DOMAIN lastOp.branch.features :
         /\ i < j
         /\ toUpperCase(getGridName(Feature(lastOp.branch.features[i])))
              = toUpperCase(getGridName(Feature(lastOp.branch.features[j])))

\* C6: the store never holds two entries whose names are equal after
\* upper-casing; in particular updateSelection with replace on a list with
\* two features whose names differ only in case leaves one entry for them.
NoDuplicateNames ==
    /\ \A i, j \in DOMAIN selectedGridMap :
         i # j => toUpperCase(selectedGridMap[i].name) # toUpperCase(selectedGridMap[j].name)
    /\ ReplacedWithDuplicates =>
         \A f \in Range(lastOp.branch.features) :
            Cardinality({k \in DOMAIN selectedGridMap :
                            toUpperCase(selectedGridMap[k].name)
                              = toUpperCase(getGridName(Feature(f)))}) = 1

\* the selection has just been replaced by the two features named 1a and 1A
ReplacedWithCaseVariants ==
    /\ ReplacedWithDuplicates
    /\ {getGridName(Feature(f)) : f \in Range(lastOp.branch.features)}
         = {<<"1","a">>, <<"1","A">>}
    /\ Len(selectedGridMap) = 1

RemoveAndClearNoOps ==
    [][/\ lastOp'.op = "remove" =>
            IF lastOp'.branch = "absent"
            THEN UNCHANGED selectionVars
            ELSE \E gridName \in RemovableNames :
                    LET upper == toUpperCase(gridName)
                    IN  /\ upper \in StoreKeys(selectedGridMap)
                        /\ StoreKeys(selectedGridMap') = StoreKeys(selectedGridMap) \ {upper}
                        /\ selectedGridMap' =
                               SelectSeq(selectedGridMap, LAMBDA e : e.key # upper)
       /\ lastOp'.op = "clear" =>
            IF Len(selectedGridMap) = 0
            THEN lastOp'.branch = "empty" /\ UNCHANGED selectionVars
            ELSE lastOp'.branch = "cleared" /\ selectedGridMap' = <<>>]_vars

\* a removal of a name that is not selected has just returned while two
\* grids were selected and the URL still held a parameter the store does
\* not account for
AbsentNameRemoveSkipped ==
    /\ lastOp.op = "remove"
    /\ lastOp.branch = "absent"
    /\ Len(selectedGridMap) = 2
    /\ paramsGet(locationSearch, <<"z">>) # None

(* ------------------------------------------------------------------ *)
(* The share URL written and read back                                  *)
(* ------------------------------------------------------------------ *)
\* names a grid can have: no comma, no surrounding whitespace, not empty;
\* with characters the query syntax gives a meaning to
CodecNames ==
    { <<"1","a">>, <<"1","A">>, <<"a"," ","&","b">>, <<"+","%","2","c","=","?">> }

\* window.location.search when the share URL is written: the startup URLs
\* and URLs with other parameters, repeated and empty ones
CodecSearches ==
    StartupSearches \cup
    { <<"?","a","=","b","+","c","&","g","r","i","d","=","1","a">>,
      <<"?","g","r","i","d","s","=","&","f">>,
      <<"?","g","r","i","d","=","1","a","&","e","=","%","2","6","&","g","r","i","d","=","z","z">>,
      <<"?","d","=","1","&","d","=","2","&","g","r","i","d","s","=","1","a",",",",","1","A">> }

NameLists == UNION {[1..n -> CodecNames] : n \in 0..MaxNames}

\* the page opened at a URL: getGridParamsFromUrl reads window.location.search
CodecInit ==
    /\ locationSearch \in {parseQuery(search) : search \in CodecSearches}
    /\ pendingGridSelection = gridParamsOf(locationSearch)
    /\ gridData = None
    /\ noCoverageStatus = "fetching"
    /\ noCoverageLayer = None
    /\ loadStatus = "fetching"
    /\ searchIndex = <<>>
    /\ restoreTimer = None
    /\ selectedGridMap = <<>>
    /\ highlightLayer = None
    /\ shareLinkVisible = FALSE
    /\ shareLinkFeedback = <<>>
    /\ shareLinkFeedbackTimer = 0
    /\ activeElement = "body"
    /\ historyLength = 1
    /\ polygonLayer = None
    /\ labelLayer = None
    /\ mapView = InitialView
    /\ debouncedUpdateInstalled = FALSE
    /\ debounceTimeout = 0
    /\ maxToRender = maxGridsToRender
    /\ rectangleSelectState = IdleRectangleState
    /\ mapDragging = TRUE
    /\ rectanglesOnMap = 0
    /\ suppressNextGridClick = FALSE
    /\ suppressNextGridClickTimer = FALSE
    /\ pendingSuppressTimers = 0
    /\ lastOp = Op("DOMContentLoaded", "")

\* updateAddressBarWithSelection(gridNames) writes the address bar, and the
\* page opened at the URL it wrote reads it with getGridParamsFromUrl
ShareAndReopen(gridNames) ==
    LET search == updateAddressBarWithSelection(serializeQuery(locationSearch), gridNames)
    IN  /\ locationSearch' = parseQuery(search)
        /\ pendingGridSelection' = gridParamsOf(locationSearch')
        /\ lastOp' = Op("updateAddressBarWithSelection", gridNames)
        /\ UNCHANGED <<noCoverageStatus, noCoverageLayer,
                       gridData, loadStatus, searchIndex, restoreTimer, selectedGridMap,
                       highlightLayer, shareLinkVisible, shareLinkFeedback, shareLinkFeedbackTimer, activeElement, historyLength,
                   viewVars, rectVars, suppressVars>>

\* the page opened at one of the startup URLs
OpenPage(search) ==
    /\ locationSearch' = parseQuery(search)
    /\ pendingGridSelection' = gridParamsOf(locationSearch')
    /\ lastOp' = Op("DOMContentLoaded", "")
    /\ UNCHANGED <<noCoverageStatus, noCoverageLayer,
                   gridData, loadStatus, searchIndex, restoreTimer, selectedGridMap,
                   highlightLayer, shareLinkVisible, shareLinkFeedback, shareLinkFeedbackTimer, activeElement, historyLength,
                   viewVars, rectVars, suppressVars>>

CodecNext ==
    \/ \E gridNames \in NameLists : ShareAndReopen(gridNames)
    \/ \E search \in CodecSearches : OpenPage(search)

CodecSpec == CodecInit /\ [][CodecNext]_vars

\* C3: the names getGridParamsFromUrl reads from the query that
\* updateAddressBarWithSelection wrote for a list of names are exactly the
\* upper-cased names of the list, each once; for no names it reads null.
CodecRoundTrip ==
    lastOp.op = "updateAddressBarWithSelection" =>
        LET upper == {toUpperCase(n) : n \in Range(lastOp.branch)}
        IN  IF upper = {} THEN pendingGridSelection = None
            ELSE /\ pendingGridSelection # None
                 /\ Range(pendingGridSelection[1]) = upper
                 /\ Len(pendingGridSelection[1]) = Cardinality(upper)

\* two names with characters of the query syntax went through the URL
SyntaxCharactersRoundTripped ==
    /\ lastOp.op = "updateAddressBarWithSelection"
    /\ lastOp.branch = << <<"a"," ","&","b">>, <<"+","%","2","c","=","?">> >>
    /\ pendingGridSelection # None
    /\ Len(pendingGridSelection[1]) = 2

(* ------------------------------------------------------------------ *)
(* The share URL rebuilt by hand when the URL object is not available   *)
(* ------------------------------------------------------------------ *)
\* an encoder that escapes nothing
encodeURIComponentRaw(s) == s

\* encodeURIComponent: letters, digits and - _ . ! ~ * ' ( ) stay, every
\* other character is percent-encoded (a space is %20)
RECURSIVE encodeURIComponent(_)
encodeURIComponent(s) ==
    IF s = <<>> THEN <<>>
    ELSE LET c == Head(s)
         IN  (IF c \in {"-", "_", ".", "!", "~", "*", "'", "(", ")"} \/ IsAlnum(c)
              THEN <<c>>
              ELSE percentEncodeChar(c)) \o encodeURIComponent(Tail(s))

\* updateAddressBarWithSelection, the catch branch: the query put between
\* the path and the hash, "?grid=", "?grids=" or nothing
fallbackQuery(gridNames) ==
    LET upperSorted == upperSortedOf(gridNames)
    IN  IF Len(upperSorted) = 1
        THEN <<"?">> \o GRID \o <<"=">> \o encodeURIComponent(upperSorted[1])
        ELSE IF Len(upperSorted) > 1
             THEN <<"?">> \o GRIDS \o <<"=">> \o encodeURIComponent(join(upperSorted, ","))
        ELSE <<>>

\* names for both branches: those of the codec and one with characters
\* the two encoders treat differently
FallbackNames == CodecNames \cup { <<"a","!","*">> }

FallbackNameLists == UNION {[1..n -> FallbackNames] : n \in 0..MaxNames}

\* updateAddressBarWithSelection when new URL(...) works: the try branch,
\* history.replaceState, and the page reading the address bar again
ShareByUrlObject(gridNames) ==
    LET search == updateAddressBarWithSelection(serializeQuery(locationSearch), gridNames)
    IN  /\ locationSearch' = parseQuery(search)
        /\ pendingGridSelection' = gridParamsOf(locationSearch')
        /\ historyLength' = historyLength
        /\ lastOp' = Op("updateAddressBarWithSelection", gridNames)
        /\ UNCHANGED <<noCoverageStatus, noCoverageLayer,
                       gridData, loadStatus, searchIndex, restoreTimer, selectedGridMap,
                       highlightLayer, shareLinkVisible, shareLinkFeedback,
                       shareLinkFeedbackTimer, activeElement,
                       viewVars, rectVars, suppressVars>>

\* updateAddressBarWithSelection when new URL(...) throws: the catch
\* branch, history.replaceState, and the page reading the address bar again
ShareByFallback(gridNames) ==
    /\ locationSearch' = parseQuery(fallbackQuery(gridNames))
    /\ pendingGridSelection' = gridParamsOf(locationSearch')
    /\ historyLength' = historyLength
    /\ lastOp' = Op("updateAddressBarFallback", gridNames)
    /\ UNCHANGED <<noCoverageStatus, noCoverageLayer,
                   gridData, loadStatus, searchIndex, restoreTimer, selectedGridMap,
                   highlightLayer, shareLinkVisible, shareLinkFeedback,
                   shareLinkFeedbackTimer, activeElement,
                   viewVars, rectVars, suppressVars>>

FallbackNext ==
    \/ \E gridNames \in FallbackNameLists : ShareByUrlObject(gridNames)
    \/ \E gridNames \in FallbackNameLists : ShareByFallback(gridNames)
    \/ \E search \in CodecSearches : OpenPage(search)

FallbackSpec == CodecInit /\ [][FallbackNext]_vars

\* C39: for every list of names and every URL the page is at, the query
\* the catch branch builds by hand has the same grid and grids parameters
\* as the one the try branch writes: none for no name, one grid parameter
\* for one name, one grids parameter for several, with the same upper-cased
\* sorted names; and both branches replace the current history entry.
FallbackAgreesWithPrimary ==
    /\ [](\A gridNames \in FallbackNameLists :
            LET primary == parseQuery(updateAddressBarWithSelection(
                               serializeQuery(locationSearch), gridNames))
                fallback == parseQuery(fallbackQuery(gridNames))
            IN  /\ paramsGet(fallback, GRID) = paramsGet(primary, GRID)
                /\ paramsGet(fallback, GRIDS) = paramsGet(primary, GRIDS)
                /\ paramCount(fallback, GRID) = paramCount(primary, GRID)
                /\ paramCount(fallback, GRIDS) = paramCount(primary, GRIDS)
                /\ gridParamsOf(fallback) = gridParamsOf(primary))
    /\ [][lastOp'.op \in {"updateAddressBarWithSelection", "updateAddressBarFallback"} =>
            /\ historyLength' = historyLength
            /\ LET upper == {toUpperCase(n) : n \in Range(lastOp'.branch)}
               IN  IF upper = {} THEN pendingGridSelection' = None
                   ELSE /\ pendingGridSelection' # None
                        /\ Range(pendingGridSelection'[1]) = upper]_vars

\* the catch branch has just written two names with characters of the
\* query syntax and characters the two encoders treat differently, at a
\* page whose URL had another parameter
FallbackWroteSyntaxCharacters ==
    /\ lastOp.op = "updateAddressBarFallback"
    /\ lastOp.branch = << <<"a","!","*">>, <<"a"," ","&","b">> >>
    /\ paramsGet(locationSearch, GRIDS) = Some(<<"A"," ","&","B",",","A","!","*">>)
    /\ historyLength = 1

(* ------------------------------------------------------------------ *)
(* The grid display and its debounced listener                          *)
(* ------------------------------------------------------------------ *)
\* viewports the map can report when updateGridDisplay reads it: all the
\* grids in view, two of them, none, a zoom at the label threshold, and a
\* zoom below minZoomForGrids, which a pinch gesture passes through before
\* it bounces back to the map's minZoom
DisplayViews ==
    { [zoom |-> 5, bounds |-> [south |-> -1, north |-> 3, west |-> -1, east |-> 10]],
      [zoom |-> 5, bounds |-> [south |-> -1, north |-> 3, west |-> -1, east |-> 1]],
      [zoom |-> 5, bounds |-> [south |-> -1, north |-> 3, west |-> 20, east |-> 30]],
      [zoom |-> 8, bounds |-> [south |-> -1, north |-> 3, west |-> -1, east |-> 10]],
      [zoom |-> 2, bounds |-> [south |-> -1, north |-> 3, west |-> -1, east |-> 10]] }

\* CONFIG.maxGridsToRender, also scaled to the dataset of the model
RenderCaps == {1, 2, maxGridsToRender}

\* the page after the DOMContentLoaded handler
DisplayInit ==
    /\ locationSearch \in {parseQuery(search) : search \in StartupSearches}
    /\ pendingGridSelection = gridParamsOf(locationSearch)
    /\ gridData = None
    /\ noCoverageStatus = "fetching"
    /\ noCoverageLayer = None
    /\ loadStatus = "fetching"
    /\ searchIndex = <<>>
    /\ restoreTimer = None
    /\ selectedGridMap = <<>>
    /\ highlightLayer = None
    /\ shareLinkVisible = FALSE
    /\ shareLinkFeedback = <<>>
    /\ shareLinkFeedbackTimer = 0
    /\ activeElement = "body"
    /\ historyLength = 1
    /\ polygonLayer = None
    /\ labelLayer = None
    /\ mapView = InitialView
    /\ debouncedUpdateInstalled = FALSE
    /\ debounceTimeout = 0
    /\ maxToRender \in RenderCaps
    /\ rectangleSelectState = IdleRectangleState
    /\ mapDragging = TRUE
    /\ rectanglesOnMap = 0
    /\ suppressNextGridClick = FALSE
    /\ suppressNextGridClickTimer = FALSE
    /\ pendingSuppressTimers = 0
    /\ lastOp = Op("DOMContentLoaded", "")

\* setupEventListeners, run by the 1000 ms timer of the DOMContentLoaded
\* handler: updateGridDisplay is unbound from zoomend/moveend and
\* debouncedUpdate is bound
SetupEventListeners ==
    /\ ~debouncedUpdateInstalled
    /\ debouncedUpdateInstalled' = TRUE
    /\ lastOp' = Op("setupEventListeners", "")
    /\ UNCHANGED <<loadVars, selectionVars, polygonLayer, labelLayer, mapView, debounceTimeout,
                   maxToRender, rectVars, suppressVars>>

\* the 100 ms timer of debouncedUpdate: later() runs updateGridDisplay
DebounceTimerFire ==
    /\ debounceTimeout > 0
    /\ debounceTimeout' = 0
    /\ polygonLayer' = polygonLayerAfterUpdate(mapView, gridData, polygonLayer)
    /\ labelLayer' = labelLayerAfterUpdate(mapView, gridData, labelLayer)
    /\ highlightLayer' = highlightAfterUpdate(mapView, gridData, selectedGridMap, highlightLayer)
    /\ lastOp' = Op("debouncedUpdate", "")
    /\ UNCHANGED <<loadVars, selectedGridMap, locationSearch, shareLinkVisible,
                   shareLinkFeedback, shareLinkFeedbackTimer, activeElement, historyLength, mapView,
                   debouncedUpdateInstalled, maxToRender, rectVars, suppressVars>>

DisplayNext ==
    \/ LoadGridDataOk
    \/ LoadGridDataFail
    \/ RestoreTimerFire
    \/ SetupEventListeners
    \/ \E view \in DisplayViews : MoveEnd(view)
    \/ DebounceTimerFire
    \/ \E t \in ClickTargets : ProcessGridClick(t[1], t[2])

\* a pending timer fires
DisplaySpec == DisplayInit /\ [][DisplayNext]_vars /\ WF_vars(DebounceTimerFire)

\* the step ran updateGridDisplay: the load, the direct listener, or the
\* timer of the debounced one
DisplayRecomputed ==
    \/ lastOp'.op = "loadGridData" /\ lastOp'.branch = "ok"
    \/ lastOp'.op \in {"moveend", "restore"} /\ ~debouncedUpdateInstalled
    \/ lastOp'.op = "debouncedUpdate"

\* C15: once debouncedUpdate is the listener, a viewport event does not
\* run updateGridDisplay (the polygons, the labels and the highlight stay
\* as they were) and leaves exactly one timer pending, whether or not one
\* was pending before; nothing but the timer (and the load) touches the
\* display; the timer runs updateGridDisplay once, for the viewport of the
\* last event, and leaves no timer pending; and a pending timer does fire.
DebounceRunsOnceAfterLastEvent ==
    /\ [][/\ (debouncedUpdateInstalled /\ lastOp'.op \in {"moveend", "restore"}) =>
                /\ debounceTimeout' = 1
                /\ UNCHANGED <<polygonLayer, labelLayer>>
                /\ lastOp'.op = "moveend" => UNCHANGED highlightLayer
          /\ lastOp'.op = "debouncedUpdate" =>
                /\ debounceTimeout = 1 /\ debounceTimeout' = 0
                /\ mapView' = mapView
                /\ polygonLayer' = polygonLayerAfterUpdate(mapView, gridData, polygonLayer)
          /\ (debouncedUpdateInstalled /\ <<polygonLayer, labelLayer>>' # <<polygonLayer, labelLayer>>)
                => lastOp'.op \in {"debouncedUpdate", "loadGridData"}
          /\ debounceTimeout' \in {0, 1}]_vars
    /\ (debounceTimeout = 1 ~> debounceTimeout = 0)

\* a viewport event has just arrived while the timer of the previous one
\* was pending, at a viewport the display does not show yet
BurstRestartedTimer ==
    /\ lastOp.op = "moveend"
    /\ lastOp.branch = "restarted"
    /\ debounceTimeout = 1
    /\ polygonLayer # polygonLayerAfterUpdate(mapView, gridData, polygonLayer)

\* C16: when updateGridDisplay runs at a zoom below minZoomForGrids, no
\* polygon and no label stays rendered, whether the dataset is loaded or
\* not and whatever the viewport is, and the selection store is as it
\* was.
NothingRenderedBelowMinZoom ==
    [][(DisplayRecomputed /\ mapView'.zoom < minZoomForGrids) =>
          /\ polygonLayer' = None
          /\ labelLayer' = None
          /\ selectedGridMap' = selectedGridMap]_vars

\* the display has just been recomputed below the minimum zoom, with the
\* dataset loaded and a grid selected
RecomputedBelowMinZoom ==
    /\ lastOp.op = "debouncedUpdate"
    /\ mapView.zoom < minZoomForGrids
    /\ gridData # None
    /\ Len(selectedGridMap) > 0
    /\ polygonLayer = None

\* C17: the rendered features are never more than maxGridsToRender; when
\* updateGridDisplay runs with the dataset loaded at a zoom that shows
\* grids, it renders the visible features in dataset order, cut to the
\* first maxGridsToRender of them when there are more, and the load status
\* does not become an error.
RenderCapHolds ==
    /\ [](polygonLayer # None => Len(polygonLayer[1]) <= maxToRender)
    /\ [][(DisplayRecomputed /\ gridData' # None /\ mapView'.zoom >= minZoomForGrids) =>
            LET visible == getVisibleGrids(gridData'[1], mapView'.bounds)
                count == Min({Len(visible), maxToRender})
            IN  /\ polygonLayer' = IF count = 0 THEN None ELSE Some(SubSeq(visible, 1, count))
                /\ loadStatus' = "ready"]_vars

\* the display has just been cut to the cap: more grids are in view than
\* the two that are rendered
DisplayTruncated ==
    /\ lastOp.op = "debouncedUpdate"
    /\ polygonLayer # None
    /\ Len(polygonLayer[1]) = 2
    /\ maxToRender = 2
    /\ Len(getVisibleGrids(gridData[1], mapView.bounds)) = 3

\* C35: a viewport change, handled at once or by the debounce timer, above
\* or below the minimum zoom, changes only what is rendered: the store (its
\* keys and its entries), the URL and the share panel are as before, and a
\* selection that is not empty is still highlighted, feature for feature.
ViewportChangesOnlyRendering ==
    [][lastOp'.op \in {"moveend", "debouncedUpdate"} =>
        /\ UNCHANGED <<selectedGridMap, locationSearch, shareLinkVisible, activeElement,
                       loadVars, rectVars, suppressVars>>
        /\ Len(selectedGridMap) > 0 =>
              /\ highlightLayer' # None
              /\ highlightLayer' = highlightLayer
              /\ Range(highlightLayer'[1]) =
                     {selectedGridMap[i].feature : i \in DOMAIN selectedGridMap}]_vars

\* updateGridDisplay has just run below the minimum zoom, by the listener
\* or by the debounce timer, with a grid selected: the polygons are gone
\* and the highlight is on the map
HighlightKeptBelowMinZoom ==
    /\ lastOp.op \in {"moveend", "debouncedUpdate"}
    /\ lastOp.branch = ""
    /\ mapView.zoom < minZoomForGrids
    /\ Len(selectedGridMap) > 0
    /\ polygonLayer = None
    /\ highlightLayer # None

(* ------------------------------------------------------------------ *)
(* The geometry functions applied to boxes, datasets and points         *)
(* ------------------------------------------------------------------ *)
\* boxes handed to getVisibleGrids: across the antimeridian as west > east,
\* across it as the map reports it (east past 180, west below -180), away
\* from it, and at another latitude
ViewportBoxes ==
    { [south |-> -1, north |-> 3, west |-> 170, east |-> -170],
      [south |-> -1, north |-> 3, west |-> 179, east |-> -179],
      [south |-> -1, north |-> 3, west |-> 181, east |-> -181],
      [south |-> 40, north |-> 60, west |-> 170, east |-> -170],
      [south |-> -1, north |-> 3, west |-> 170, east |-> 190],
      [south |-> -1, north |-> 3, west |-> -190, east |-> -170],
      [south |-> -1, north |-> 3, west |-> 90, east |-> 120],
      [south |-> -1, north |-> 3, west |-> -1, east |-> 10],
      [south |-> 3, north |-> 49, west |-> -200, east |-> 200] }

\* gridData.features: lists of features in several orders
Datasets ==
    { <<4, 5, 6, 7, 8, 9, 10>>,
      <<10, 9, 8, 7, 6, 5, 4>>,
      <<7, 1, 5, 3, 4>>,
      <<8, 6, 2, 9>>,
      <<1, 2, 3>>,
      <<5>>,
      <<>> }

\* polygons handed to isPointInPolygon: no ring, a square, a square with a
\* hole, a square with two holes, a triangle with a hole that reaches out
\* of it
Polygons ==
    { <<>>,
      <<BoxRing(0, 0, 4, 4)>>,
      <<BoxRing(0, 0, 4, 4), BoxRing(1, 1, 3, 3)>>,
      <<BoxRing(0, 0, 6, 4), BoxRing(1, 1, 2, 3), BoxRing(4, 1, 5, 3)>>,
      << << <<0, 0>>, <<6, 0>>, <<0, 6>>, <<0, 0>> >>, BoxRing(1, 1, 4, 4) >> }

Points == {<<x, y>> : x \in -1..6, y \in {-1, 0, 1, 2, 3, 5}}

\* the page of Init, with no call made yet
GeometryInit ==
    /\ locationSearch = <<>>
    /\ pendingGridSelection = None
    /\ gridData = None
    /\ noCoverageStatus = "fetching"
    /\ noCoverageLayer = None
    /\ loadStatus = "fetching"
    /\ searchIndex = <<>>
    /\ restoreTimer = None
    /\ selectedGridMap = <<>>
    /\ highlightLayer = None
    /\ shareLinkVisible = FALSE
    /\ shareLinkFeedback = <<>>
    /\ shareLinkFeedbackTimer = 0
    /\ activeElement = "body"
    /\ historyLength = 1
    /\ polygonLayer = None
    /\ labelLayer = None
    /\ mapView = InitialView
    /\ debouncedUpdateInstalled = FALSE
    /\ debounceTimeout = 0
    /\ maxToRender = maxGridsToRender
    /\ rectangleSelectState = IdleRectangleState
    /\ mapDragging = TRUE
    /\ rectanglesOnMap = 0
    /\ suppressNextGridClick = FALSE
    /\ suppressNextGridClickTimer = FALSE
    /\ pendingSuppressTimers = 0
    /\ lastOp = Op("DOMContentLoaded", "")

\* getVisibleGrids(bounds) with gridData.features = features
GetVisibleGrids(features, bounds) ==
    /\ lastOp' = Op("getVisibleGrids",
                    [features |-> features, bounds |-> bounds,
                     visibleGrids |-> getVisibleGrids(features, bounds)])
    /\ UNCHANGED <<loadVars, selectionVars, viewVars, rectVars, suppressVars>>

\* isPointInPolygon(point, polygon)
IsPointInPolygon(point, polygon) ==
    /\ lastOp' = Op("isPointInPolygon",
                    [point |-> point, polygon |-> polygon,
                     contained |-> isPointInPolygon(point, polygon)])
    /\ UNCHANGED <<loadVars, selectionVars, viewVars, rectVars, suppressVars>>

GeometryNext ==
    \/ \E features \in Datasets, bounds \in ViewportBoxes : GetVisibleGrids(features, bounds)
    \/ \E point \in Points, polygon \in Polygons : IsPointInPolygon(point, polygon)

GeometrySpec == GeometryInit /\ [][GeometryNext]_vars

\* the outer rings of a feature's polygon parts
outerRings(f) ==
    LET geometry == Feature(f).geometry
    IN  IF geometry.type = "Polygon" THEN {geometry.coordinates[1]}
        ELSE IF geometry.type = "MultiPolygon"
             THEN {geometry.coordinates[k][1] : k \in DOMAIN geometry.coordinates}
        ELSE {}

\* the bounding box of a ring
ringBox(ring) ==
    [west |-> Min({v[1] : v \in Range(ring)}), east |-> Max({v[1] : v \in Range(ring)}),
     south |-> Min({v[2] : v \in Range(ring)}), north |-> Max({v[2] : v \in Range(ring)})]

\* C18: for a box with west > east, every feature of the dataset with an
\* outer ring that overlaps the box's latitudes and whose longitudes reach
\* 180 or beyond, or -180 or below, is among the features getVisibleGrids
\* returns.
AntimeridianFeaturesVisible ==
    (lastOp.op = "getVisibleGrids" /\ lastOp.branch.bounds.west > lastOp.branch.bounds.east) =>
        LET call == lastOp.branch
            atSeam(f) ==
                \E ring \in outerRings(f) :
                    /\ ringBox(ring).east >= 180 \/ ringBox(ring).west <= -180
                    /\ ringBox(ring).north >= call.bounds.south
                    /\ ringBox(ring).south <= call.bounds.north
        IN  \A i \in DOMAIN call.features :
                atSeam(call.features[i]) => call.features[i] \in Range(call.visibleGrids)

\* getVisibleGrids has just returned, for the box from 170 to -170, the
\* feature across 180, the feature that starts at -180, the feature split
\* at the antimeridian and the feature past 180, and not the others
SeamFeaturesReturned ==
    /\ lastOp.op = "getVisibleGrids"
    /\ lastOp.branch.bounds = [south |-> -1, north |-> 3, west |-> 170, east |-> -170]
    /\ lastOp.branch.features = <<4, 5, 6, 7, 8, 9, 10>>
    /\ lastOp.branch.visibleGrids = <<4, 5, 6, 7>>

\* the boxes a viewport box stands for: itself, its halves up to 180 and
\* from -180 when west > east, and the box between its corners moved by
\* 360 degrees of longitude either way
wrappedBoxes(box) ==
    LET between(lng1, lng2) ==
            [south |-> box.south, north |-> box.north,
             west |-> Min({lng1, lng2}), east |-> Max({lng1, lng2})]
    IN  {box, between(box.west - 360, box.east - 360), between(box.west + 360, box.east + 360)}
        \cup (IF box.west > box.east
              THEN {between(box.west, 180), between(-180, box.east)} ELSE {})

\* a ring's bounding box and a box have a point in common; a box with
\* west > east runs from its west eastwards and from its east westwards
boxesMeet(rb, box) ==
    /\ rb.north >= box.south /\ rb.south <= box.north
    /\ IF box.west <= box.east
       THEN rb.east >= box.west /\ rb.west <= box.east
       ELSE rb.east >= box.west \/ rb.west <= box.east

\* C19: getVisibleGrids returns the entries of the dataset that have an
\* outer ring whose bounding box meets one of the wrapped boxes, and only
\* those, in the order of the dataset, each entry once.
VisibleIffMeetsWrappedBox ==
    lastOp.op = "getVisibleGrids" =>
        LET call == lastOp.branch
            meets(f) == \E ring \in outerRings(f), box \in wrappedBoxes(call.bounds) :
                            boxesMeet(ringBox(ring), box)
            kept == {i \in DOMAIN call.features : meets(call.features[i])}
            nth(k) == CHOOSE i \in kept : Cardinality({j \in kept : j <= i}) = k
        IN  /\ Len(call.visibleGrids) = Cardinality(kept)
            /\ \A k \in DOMAIN call.visibleGrids : call.visibleGrids[k] = call.features[nth(k)]

\* getVisibleGrids has just returned, for a box from 170 to 190, the
\* features it meets itself and those it meets one world to the left, in
\* the order of the dataset
FeaturesOfShiftedBoxReturned ==
    /\ lastOp.op = "getVisibleGrids"
    /\ lastOp.branch.bounds = [south |-> -1, north |-> 3, west |-> 170, east |-> 190]
    /\ lastOp.branch.features = <<10, 9, 8, 7, 6, 5, 4>>
    /\ lastOp.branch.visibleGrids = <<7, 6, 5, 4>>

\* the edge from a to b crosses the ray from the point towards greater x
crossesRay(point, a, b) ==
    /\ (a[2] > point[2]) # (b[2] > point[2])
    /\ LET dy == b[2] - a[2]
           lhs == (point[1] - a[1]) * dy
           rhs == (b[1] - a[1]) * (point[2] - a[2])
       IN  IF dy > 0 THEN lhs < rhs ELSE lhs > rhs

\* ray casting: the edges of the ring, the one from the last vertex back to
\* the first included, cross the ray an odd number of times
rayCastInside(point, ring) ==
    LET n == Len(ring)
        next(i) == IF i = n THEN 1 ELSE i + 1
    IN  Cardinality({i \in 1..n : crossesRay(point, ring[i], ring[next(i)])}) % 2 = 1

\* C20: isPointInPolygon answers true exactly when the polygon has a ring,
\* ray casting puts the point inside the first ring and ray casting puts
\* it inside none of the later rings.
ContainedIffInOuterRingAndNoHole ==
    lastOp.op = "isPointInPolygon" =>
        LET call == lastOp.branch
        IN  call.contained <=>
                /\ call.polygon # <<>>
                /\ rayCastInside(call.point, call.polygon[1])
                /\ \A k \in 2..Len(call.polygon) : ~rayCastInside(call.point, call.polygon[k])

\* isPointInPolygon has just answered false for a point inside the outer
\* ring and inside the second of two holes
PointInHoleRejected ==
    /\ lastOp.op = "isPointInPolygon"
    /\ lastOp.branch.point = <<4, 2>>
    /\ Len(lastOp.branch.polygon) = 3
    /\ rayCastInside(lastOp.branch.point, lastOp.branch.polygon[1])
    /\ rayCastInside(lastOp.branch.point, lastOp.branch.polygon[3])
    /\ ~lastOp.branch.contained


(* ------------------------------------------------------------------ *)
(* The exports of the selection and the feedback line                   *)
(* ------------------------------------------------------------------ *)
\* the messages setShareLinkFeedback is called with; the text of the
\* feedback line is <<>> when empty and <<m>> when it shows the message m
SelectGridsFirst == <<"Select grids to export first">>
UnableToDownload == <<"Unable to download selection">>

\* the timers pending after setShareLinkFeedback, had it not cancelled the
\* one it finds
feedbackTimerWithoutClear(timer, message) ==
    IF message = <<>> THEN 0 ELSE IF timer < 2 THEN timer + 1 ELSE timer

\* setShareLinkFeedback: the pending timer is cancelled, and a new one is
\* started unless the message is empty
feedbackTimerAfter(timer, message) == IF message = <<>> THEN 0 ELSE 1

\* setShareLinkFeedback(message)
SetShareLinkFeedback(message) ==
    /\ shareLinkFeedback' = message
    /\ shareLinkFeedbackTimer' = feedbackTimerAfter(shareLinkFeedbackTimer, message)

\* the 3000 ms timer of setShareLinkFeedback fires
ShareLinkFeedbackTimerFire ==
    /\ shareLinkFeedbackTimer > 0
    /\ shareLinkFeedback' = <<>>
    /\ shareLinkFeedbackTimer' = shareLinkFeedbackTimer - 1
    /\ lastOp' = Op("shareLinkFeedbackTimer", <<>>)
    /\ UNCHANGED <<selectedGridMap, highlightLayer, locationSearch, shareLinkVisible,
                   activeElement, historyLength,
                   loadVars, viewVars, rectVars, suppressVars>>

\* triggerDownload: the content handed to the browser, or the feedback
\* message when creating the blob or the link throws
TriggerDownload(ok, mimeType, content, name) ==
    /\ IF ok THEN UNCHANGED <<shareLinkFeedback, shareLinkFeedbackTimer>>
             ELSE SetShareLinkFeedback(UnableToDownload)
    /\ lastOp' = Op(name, IF ok THEN Some([mimeType |-> mimeType, content |-> content])
                                ELSE None)

\* the FeatureCollection of downloadSelectionAsGeoJSON: a copy of every
\* selected feature, in the order of the store
featureCollection(store) ==
    [type |-> "FeatureCollection",
     features |-> [i \in DOMAIN store |-> Feature(getSelectedFeatures(store)[i])]]

\* downloadSelectionAsGeoJSON, had it emptied the selection it exported
DownloadSelectionAsGeoJSONConsuming(ok) ==
    /\ IF Len(getSelectedFeatures(selectedGridMap)) = 0
       THEN /\ SetShareLinkFeedback(SelectGridsFirst)
            /\ lastOp' = Op("downloadSelectionAsGeoJSON", None)
            /\ UNCHANGED <<selectedGridMap, highlightLayer, locationSearch, shareLinkVisible,
                           activeElement, historyLength>>
       ELSE /\ lastOp' = Op("downloadSelectionAsGeoJSON",
                            Some([mimeType |-> "application/geo+json",
                                  content |-> featureCollection(selectedGridMap)]))
            /\ selectedGridMap' = <<>>
            /\ RefreshSelectionState(<<>>)
    /\ UNCHANGED <<loadVars, viewVars, rectVars, suppressVars>>

\* downloadSelectionAsGeoJSON (the file name, a timestamp, is left out)
DownloadSelectionAsGeoJSON(ok) ==
    /\ IF Len(getSelectedFeatures(selectedGridMap)) = 0
       THEN /\ SetShareLinkFeedback(SelectGridsFirst)
            /\ lastOp' = Op("downloadSelectionAsGeoJSON", None)
       ELSE TriggerDownload(ok, "application/geo+json", featureCollection(selectedGridMap),
                            "downloadSelectionAsGeoJSON")
    /\ UNCHANGED <<selectedGridMap, highlightLayer, locationSearch, shareLinkVisible,
                   activeElement, historyLength,
                   loadVars, viewVars, rectVars, suppressVars>>

\* a property key or a column title as the characters it is made of
KeyChars(k) ==
    CASE k = "name" -> <<"n","a","m","e">>
      [] k = "Name" -> <<"N","a","m","e">>
      [] k = "id" -> <<"i","d">>
      [] k = "zone" -> <<"z","o","n","e">>
      [] k = "centroid_lat" -> <<"c","e","n","t","r","o","i","d","_","l","a","t">>
      [] k = "centroid_lng" -> <<"c","e","n","t","r","o","i","d","_","l","n","g">>

\* Object.keys(properties): the keys in the order the dataset writes them
objectKeys(properties) ==
    SelectSeq(<<"name", "Name", "id", "zone">>, LAMBDA k : k \in DOMAIN properties)

\* the Set propertyKeys as an array: every key of every selected feature,
\* in the order first seen
RECURSIVE propertyKeys(_)
propertyKeys(store) ==
    IF store = <<>> THEN <<>>
    ELSE uniqueInOrder(propertyKeys(SubSeq(store, 1, Len(store) - 1))
                       \o objectKeys(Feature(store[Len(store)].feature).properties))

\* the keys left in the order the Set yields them
keysUnsorted(keys) == keys

\* Array.prototype.sort() of the keys: by UTF-16 code units
keysSorted(keys) == SortSeq(keys, LAMBDA a, b : CodeUnitLess(KeyChars(a), KeyChars(b)))

\* orderedPropertyKeys: without the keys that are name in any case, sorted
orderedPropertyKeys(store) ==
    keysSorted(SelectSeq(propertyKeys(store),
                         LAMBDA k : [i \in DOMAIN KeyChars(k) |-> ToLowerChar(KeyChars(k)[i])]
                                      # KeyChars("name")))

csvHeaders(store) == <<"name", "centroid_lat", "centroid_lng">> \o orderedPropertyKeys(store)

\* the decimal digits of a natural number
RECURSIVE digitsOf(_)
digitsOf(n) ==
    IF n < 10 THEN <<HexDigits[n + 1]>>
    ELSE Append(digitsOf(n \div 10), HexDigits[(n % 10) + 1])

\* Number.prototype.toFixed(6) of the quotient q[1] / q[2]
toFixed6(q) ==
    LET abs == IF q[1] < 0 THEN -q[1] ELSE q[1]
        scaled == (2 * abs * 1000000 + q[2]) \div (2 * q[2])
        frac == digitsOf(scaled % 1000000)
    IN  (IF q[1] < 0 THEN <<"-">> ELSE <<>>) \o digitsOf(scaled \div 1000000) \o <<".">>
          \o [i \in 1..(6 - Len(frac)) |-> "0"] \o frac

\* formatCsvNumber: '' for what is no number (0 / 0 is NaN)
formatCsvNumber(value) ==
    IF value = None \/ value[1][2] = 0 THEN <<>> ELSE toFixed6(value[1])

\* String.prototype.replace(/"/g, '""')
RECURSIVE doubleQuotes(_)
doubleQuotes(value) ==
    IF value = <<>> THEN <<>>
    ELSE (IF Head(value) = "\"" THEN <<"\"", "\"">> ELSE <<Head(value)>>)
           \o doubleQuotes(Tail(value))

\* escapeCsvValue: quoted, with the quotes doubled, when the value holds a
\* quote, a comma or a line break
escapeCsvValue(value) ==
    IF \E i \in DOMAIN value : value[i] \in {"\"", ",", "\n"}
    THEN <<"\"">> \o doubleQuotes(value) \o <<"\"">>
    ELSE value

\* the cells of the row of one entry, before escaping
csvRowValues(entry, keys) ==
    LET feature == Feature(entry.feature)
        name == IF entry.name # <<>> THEN entry.name ELSE getGridName(feature)
        centroid == IF entry.centroid # None THEN entry.centroid
                    ELSE getPolygonCentroid(feature.geometry)
        lat == IF centroid = None THEN None ELSE Some(centroid[1].lat)
        lng == IF centroid = None THEN None ELSE Some(centroid[1].lng)
    IN  <<name, formatCsvNumber(lat), formatCsvNumber(lng)>>
          \o [i \in DOMAIN keys |->
                IF keys[i] \in DOMAIN feature.properties THEN feature.properties[keys[i]]
                ELSE <<>>]

\* one line of the file
csvLine(values) == join([i \in DOMAIN values |-> escapeCsvValue(values[i])], ",")

\* csvContent: the header line and one line per entry of getSelectedEntries()
csvContent(store) ==
    LET keys == orderedPropertyKeys(store)
        headers == csvHeaders(store)
    IN  join(<<csvLine([i \in DOMAIN headers |-> KeyChars(headers[i])])>>
               \o [i \in DOMAIN store |-> csvLine(csvRowValues(store[i], keys))], "\n")

\* downloadSelectionAsCSV (the file name, a timestamp, is left out)
DownloadSelectionAsCSV(ok) ==
    /\ IF Len(selectedGridMap) = 0
       THEN /\ SetShareLinkFeedback(SelectGridsFirst)
            /\ lastOp' = Op("downloadSelectionAsCSV", None)
       ELSE TriggerDownload(ok, "text/csv", csvContent(selectedGridMap),
                            "downloadSelectionAsCSV")
    /\ UNCHANGED <<selectedGridMap, highlightLayer, locationSearch, shareLinkVisible,
                   activeElement, historyLength,
                   loadVars, viewVars, rectVars, suppressVars>>

\* the selection functions and the exports called in any order
ExportNext ==
    \/ \E features \in FeatureLists, replace \in BOOLEAN : UpdateSelection(features, replace)
    \/ \E gridName \in RemovableNames : RemoveGridFromSelection(gridName)
    \/ ClearSelection
    \/ \E ok \in BOOLEAN : DownloadSelectionAsGeoJSON(ok)
    \/ \E ok \in BOOLEAN : DownloadSelectionAsCSV(ok)
    \/ ShareLinkFeedbackTimerFire

ExportSpec == ApiInit /\ [][ExportNext]_vars

\* the lines of the CSV file just downloaded, each as its cells
csvDownloaded ==
    LET lines == split(lastOp.branch[1].content, "\n")
    IN  [i \in DOMAIN lines |-> split(lines[i], ",")]

\* a CSV file has just been downloaded
CsvDownloaded == lastOp.op = "downloadSelectionAsCSV" /\ lastOp.branch # None


\* C22: the CSV file has one data row per entry of the store, and the rows
\* are in sorted-name order, the order of the names in the share URL,
\* whatever the order the grids were selected in.
CsvRowsInSortedNameOrder ==
    CsvDownloaded =>
        /\ Len(csvDownloaded) = Len(selectedGridMap) + 1
        /\ [i \in 1..Len(selectedGridMap) |-> csvDownloaded[i + 1][1]]
             = getSelectedNamesSorted(selectedGridMap)

\* the CSV file has one data row per entry of the store, in the order of
\* the store
CsvRowsInStoreOrder ==
    CsvDownloaded =>
        /\ Len(csvDownloaded) = Len(selectedGridMap) + 1
        /\ [i \in 1..Len(selectedGridMap) |-> csvDownloaded[i + 1][1]]
             = [i \in DOMAIN selectedGridMap |-> selectedGridMap[i].name]


\* the property keys of the selected features that are not name in any case
exportedKeys(store) ==
    {k \in UNION {DOMAIN Feature(store[i].feature).properties : i \in DOMAIN store} :
        toUpperCase(KeyChars(k)) # toUpperCase(KeyChars("name"))}

\* C23: the header line of the CSV file is name, centroid_lat, centroid_lng
\* followed by every property key of any selected feature that is not name
\* in some case, each once, in ascending order; it depends on the set of
\* selected features only, not on the order of the store.
CsvHeaderStable ==
    CsvDownloaded =>
        LET header == csvDownloaded[1]
            keys == exportedKeys(selectedGridMap)
        IN  /\ Len(header) = 3 + Cardinality(keys)
            /\ SubSeq(header, 1, 3) = <<KeyChars("name"), KeyChars("centroid_lat"),
                                        KeyChars("centroid_lng")>>
            /\ {header[i] : i \in 4..Len(header)} = {KeyChars(k) : k \in keys}
            /\ \A i \in 4..(Len(header) - 1) : CodeUnitLess(header[i], header[i + 1])

\* a CSV file has been downloaded for a selection whose first feature has
\* the key zone and whose second has name, Name and id
CsvOfKeysSeenOutOfOrder ==
    /\ CsvDownloaded
    /\ Len(selectedGridMap) = 2
    /\ selectedGridMap[1].feature = 3
    /\ selectedGridMap[2].feature = 2


\* C24: an export, GeoJSON or CSV, called while the store is empty downloads
\* nothing, shows the feedback message and leaves the store and the URL as
\* they are; the message is emptied when its timer fires, and a message
\* shown while a timer is pending replaces that timer, so that a message on
\* display always has exactly one timer pending.
ExportOfEmptySelectionRejected ==
    /\ [][(/\ lastOp'.op \in {"downloadSelectionAsGeoJSON", "downloadSelectionAsCSV"}
           /\ selectedGridMap = <<>>)
            => /\ lastOp'.branch = None
               /\ shareLinkFeedback' = SelectGridsFirst
               /\ shareLinkFeedbackTimer' = 1
               /\ UNCHANGED <<selectedGridMap, locationSearch>>]_vars
    /\ [][lastOp'.op = "shareLinkFeedbackTimer"
            => shareLinkFeedback' = <<>> /\ shareLinkFeedbackTimer' = 0]_vars
    /\ [](/\ shareLinkFeedbackTimer \in {0, 1}
          /\ shareLinkFeedback # <<>> <=> shareLinkFeedbackTimer = 1)

\* the CSV export has just been rejected because nothing is selected
EmptyExportRejected ==
    /\ lastOp.op = "downloadSelectionAsCSV"
    /\ lastOp.branch = None
    /\ selectedGridMap = <<>>
    /\ shareLinkFeedback = SelectGridsFirst
    /\ shareLinkFeedbackTimer = 1


\* a GeoJSON file has just been downloaded
GeoJsonDownloaded == lastOp.op = "downloadSelectionAsGeoJSON" /\ lastOp.branch # None

\* C25: the GeoJSON export only reads: the FeatureCollection downloaded has
\* as many features as the store has entries and holds the copy of every
\* selected feature exactly once, and an export, GeoJSON or CSV, leaves the
\* store, the dataset, the URL and the highlight as they are.
GeoJsonExportIsPureRead ==
    /\ [](GeoJsonDownloaded =>
            LET features == lastOp.branch[1].content.features
            IN  /\ lastOp.branch[1].content.type = "FeatureCollection"
                /\ Len(features) = Len(selectedGridMap)
                /\ \A e \in DOMAIN selectedGridMap :
                     Cardinality({i \in DOMAIN features :
                                    features[i] = Feature(selectedGridMap[e].feature)}) = 1)
    /\ [][lastOp'.op \in {"downloadSelectionAsGeoJSON", "downloadSelectionAsCSV"}
            => UNCHANGED <<selectedGridMap, gridData, locationSearch, highlightLayer>>]_vars

\* a GeoJSON file has been downloaded for a selection of two features
GeoJsonOfTwoDownloaded ==
    /\ GeoJsonDownloaded
    /\ Len(selectedGridMap) = 2
    /\ highlightLayer # None


(* ------------------------------------------------------------------ *)
(* The two loads at startup and the deferred restore                    *)
(* ------------------------------------------------------------------ *)
\* loadNoCoverageArea, the fetch and the parse succeeded:
\* createNoCoverageLayer adds the layer to the map
LoadNoCoverageAreaOk ==
    /\ noCoverageStatus = "fetching"
    /\ noCoverageStatus' = "ready"
    /\ noCoverageLayer' = Some("Coverage Areas")
    /\ lastOp' = Op("loadNoCoverageArea", "ok")
    /\ UNCHANGED <<gridData, loadStatus, searchIndex, pendingGridSelection, restoreTimer,
                   selectionVars, viewVars, rectVars, suppressVars>>

\* loadNoCoverageArea, had its failure been reported as the grid load's is
LoadNoCoverageAreaFailShowsError ==
    /\ noCoverageStatus = "fetching"
    /\ noCoverageStatus' = "failed"
    /\ loadStatus' = "error"
    /\ lastOp' = Op("loadNoCoverageArea", "failed")
    /\ UNCHANGED <<gridData, searchIndex, pendingGridSelection, restoreTimer, noCoverageLayer,
                   selectionVars, viewVars, rectVars, suppressVars>>

\* loadNoCoverageArea, the status was not OK (return) or the fetch or the
\* parse threw (caught and logged)
LoadNoCoverageAreaFail ==
    /\ noCoverageStatus = "fetching"
    /\ noCoverageStatus' = "failed"
    /\ lastOp' = Op("loadNoCoverageArea", "failed")
    /\ UNCHANGED <<gridData, loadStatus, searchIndex, pendingGridSelection, restoreTimer,
                   noCoverageLayer, selectionVars, viewVars, rectVars, suppressVars>>

\* the page from DOMContentLoaded on: the two loads in either order, the
\* deferred restore, and the user moving the map, clicking grids and using
\* the share panel
StartupNext ==
    \/ LoadGridDataOk
    \/ LoadGridDataFail
    \/ LoadNoCoverageAreaOk
    \/ LoadNoCoverageAreaFail
    \/ RestoreTimerFire
    \/ \E view \in Views : MoveEnd(view)
    \/ \E t \in ClickTargets : ProcessGridClick(t[1], t[2])
    \/ \E k \in StoreKeys(selectedGridMap) : shareLinkVisible /\ RemoveGridFromSelection(k)
    \/ shareLinkVisible /\ ClearSelection

StartupSpec == Init /\ [][StartupNext]_vars

\* C27: the two loads of initMap are independent: whenever
\* loadNoCoverageArea ends, before or after loadGridData and whatever the
\* outcome of either, it leaves the dataset, the load status, the search
\* index, the pending names, the scheduled restore, the store, the URL and
\* the rendered grids as they are; the error state is entered by a failed
\* grid load only; and a failed overlay load neither stops the grid load
\* from completing nor the scheduled restore from running.
OverlayLoadIndependent ==
    /\ [][lastOp'.op = "loadNoCoverageArea"
            => UNCHANGED <<gridData, loadStatus, searchIndex, pendingGridSelection,
                           restoreTimer, selectionVars, viewVars>>]_vars
    /\ [][(loadStatus # "error" /\ loadStatus' = "error")
            => (lastOp'.op = "loadGridData" /\ lastOp'.branch = "failed")]_vars
    /\ [](noCoverageStatus = "failed"
            => /\ loadStatus = "fetching" => (ENABLED LoadGridDataOk /\ ENABLED LoadGridDataFail)
               /\ restoreTimer # None => ENABLED RestoreTimerFire)

\* the overlay load has failed, the grid load has succeeded and the grids
\* of the startup URL have just been restored
RestoredAfterOverlayFailure ==
    /\ noCoverageStatus = "failed"
    /\ noCoverageLayer = None
    /\ loadStatus = "ready"
    /\ lastOp.op = "restore"
    /\ selectedGridMap # <<>>


\* the page from DOMContentLoaded on, with the user moving the map and
\* clicking grids while the load and the restore are under way
RestoreNext ==
    \/ LoadGridDataOk
    \/ LoadGridDataFail
    \/ RestoreTimerFire
    \/ \E view \in Views : MoveEnd(view)
    \/ \E t \in ClickTargets : ProcessGridClick(t[1], t[2])

\* the 200 ms timer of applyPendingGridSelection, once set, fires: nothing
\* cancels it
RestoreSpec == Init /\ [][RestoreNext]_vars /\ WF_vars(RestoreTimerFire)

\* C30: when the startup URL names at least one grid of the search index
\* and the load succeeds, a restore is scheduled with the load and, the
\* timer being fair, eventually runs; when it runs the keys of the store
\* are exactly the names resolved, one entry each; it runs at most once,
\* since only the load, which happens once, schedules it and running it
\* unschedules it; and the pending list is empty from the load on.
DeferredRestoreAppliedOnce ==
    /\ [](loadStatus = "fetching" => pendingGridSelection = gridParamsOf(locationSearch))
    /\ [][(/\ lastOp'.op = "loadGridData" /\ lastOp'.branch = "ok"
           /\ pendingGridSelection # None
           /\ matchedNames(pendingGridSelection[1]) # {})
            => /\ restoreTimer' # None
               /\ {UpperOf(f) : f \in Range(restoreTimer'[1])}
                    = matchedNames(pendingGridSelection[1])]_vars
    /\ (loadStatus = "ready" /\ restoreTimer # None) ~> (lastOp.op = "restore")
    /\ [][lastOp'.op = "restore"
            => /\ restoreTimer # None
               /\ StoreKeys(selectedGridMap') = {UpperOf(f) : f \in Range(restoreTimer[1])}
               /\ Len(selectedGridMap') = Cardinality(StoreKeys(selectedGridMap'))
               /\ restoreTimer' = None
               /\ pendingGridSelection' = None]_vars
    /\ [][(restoreTimer = None /\ restoreTimer' # None)
            => (lastOp'.op = "loadGridData" /\ loadStatus = "fetching")]_vars
    /\ [][loadStatus # "fetching" => loadStatus' = loadStatus]_vars
    /\ [](loadStatus = "ready"
            => pendingGridSelection = None \/ pendingGridSelection[1] = <<>>)

\* the restore of a URL that names one grid of the dataset has just run:
\* the store holds that grid and the map has been fitted to it
NamedGridRestored ==
    /\ lastOp.op = "restore"
    /\ StoreKeys(selectedGridMap) = {<<"1", "A">>}
    /\ restoreTimer = None
    /\ pendingGridSelection = None
    /\ mapView = fitBoundsView(<<1>>)


(* ------------------------------------------------------------------ *)
(* The dataset under every operation                                    *)
(* ------------------------------------------------------------------ *)
\* the page with any render cap: the load, the restore, the map moved and
\* zoomed, clicks, rectangles drawn, the share panel's removals and exports
DatasetNext ==
    \/ LoadGridDataOk
    \/ RestoreTimerFire
    \/ \E view \in Views : MoveEnd(view)
    \/ \E t \in ClickTargets : ProcessGridClick(t[1], t[2])
    \/ \E p \in PointerPositions : OnRectangleMouseDown(TRUE, p)
    \/ \E p \in PointerPositions : OnRectangleMouseMove(p)
    \/ \E p \in PointerPositions : OnRectangleMouseUp(Some(p))
    \/ \E k \in StoreKeys(selectedGridMap) : shareLinkVisible /\ RemoveGridFromSelection(k)
    \/ shareLinkVisible /\ ClearSelection
    \/ shareLinkVisible /\ DownloadSelectionAsGeoJSON(TRUE)
    \/ shareLinkVisible /\ DownloadSelectionAsCSV(TRUE)

DatasetSpec == DisplayInit /\ [][DatasetNext]_vars

\* C28: once loaded, the feature list of the dataset is never changed: not
\* by a recomputation of the display, which truncates the list of visible
\* grids and not the dataset, nor by a click, a rectangle commit, the
\* restore, a removal, a clear or an export.  (A feature is referred to by
\* its place in the list; nothing in the code assigns to a feature.)
DatasetImmutableAfterLoad ==
    /\ [][gridData # None => gridData' = gridData]_vars
    /\ [](gridData # None => gridData[1] = [i \in FeatureIds |-> i])

\* the display has just been recomputed and truncated to a render cap of
\* one while the dataset holds its three features
TruncatedWithDatasetWhole ==
    /\ lastOp.op = "moveend"
    /\ maxToRender = 1
    /\ gridData # None
    /\ Len(gridData[1]) = 3
    /\ polygonLayer # None
    /\ Len(polygonLayer[1]) = 1
    /\ selectedGridMap # <<>>


\* C36: every feature of an entry of the store is a feature of the loaded
\* dataset; the store is empty as long as no dataset is loaded; and the
\* store never has more entries than the dataset has distinct upper-cased
\* names.
SelectionWithinDataset ==
    IF gridData = None THEN selectedGridMap = <<>>
    ELSE /\ \A i \in DOMAIN selectedGridMap :
                selectedGridMap[i].feature \in Range(gridData[1])
         /\ Len(selectedGridMap) <=
                Cardinality({toUpperCase(getGridName(Feature(f))) : f \in Range(gridData[1])})

\* every distinct upper-cased name of the dataset is selected, one entry
\* each, while the dataset holds more features than names
EveryNameSelected ==
    /\ gridData # None
    /\ Len(selectedGridMap) =
           Cardinality({toUpperCase(getGridName(Feature(f))) : f \in Range(gridData[1])})
    /\ Len(selectedGridMap) < Len(gridData[1])


(* ------------------------------------------------------------------ *)
(* Clicks on the grid polygons and on the no-coverage layer             *)
(* ------------------------------------------------------------------ *)
\* handleNoCoverageLayerClick, the click listener of the no-coverage
\* layer's polygons: processGridClick(candidates[0], event, {centerMap:
\* false}) for the first rendered grid under the pointer
HandleNoCoverageLayerClick(latlng) ==
    /\ noCoverageLayer # None
    /\ LET candidates == IF latlng = None THEN <<>>
                         ELSE findGridCandidatesAtLatLng(polygonLayer, latlng[1])
       IN  IF candidates = <<>>
           THEN /\ lastOp' = Op("noCoverageClick", "nocandidates")
                /\ UNCHANGED <<selectionVars, suppressVars>>
           ELSE IF suppressNextGridClick
           THEN /\ suppressNextGridClick' = FALSE
                /\ suppressNextGridClickTimer' = FALSE
                /\ pendingSuppressTimers' = IF suppressNextGridClickTimer
                                            THEN pendingSuppressTimers - 1
                                            ELSE pendingSuppressTimers
                /\ lastOp' = Op("noCoverageClick", "suppressed")
                /\ UNCHANGED selectionVars
           ELSE LET store == processGridClickStore(selectedGridMap, polygonLayer,
                                                   candidates[1], latlng)
                IN  /\ selectedGridMap' = store
                    /\ IF store # selectedGridMap THEN RefreshSelectionState(store)
                       ELSE UNCHANGED <<highlightLayer, locationSearch, shareLinkVisible,
                                        shareLinkFeedback, shareLinkFeedbackTimer,
                                        activeElement, historyLength>>
                    /\ lastOp' = Op("noCoverageClick",
                                    clickBranch(selectedGridMap,
                                        clickCandidates(polygonLayer, candidates[1], latlng)))
                    /\ UNCHANGED suppressVars
    /\ UNCHANGED <<loadVars, viewVars, rectVars>>

ClickNext ==
    \/ LoadGridDataOk
    \/ LoadNoCoverageAreaOk
    \/ RestoreTimerFire
    \/ \E view \in Views : MoveEnd(view)
    \/ \E t \in ClickTargets : ProcessGridClick(t[1], t[2])
    \/ \E l \in {Some(p) : p \in PointerPositions} \cup {None} : HandleNoCoverageLayerClick(l)
    \/ SuppressTimerFire
    \/ \E p \in PointerPositions : OnRectangleMouseDown(TRUE, p)
    \/ \E p \in PointerPositions : OnRectangleMouseMove(p)
    \/ \E p \in PointerPositions : OnRectangleMouseUp(Some(p))

ClickSpec == Init /\ [][ClickNext]_vars

\* C38: the feature whose click listener ran is always among the
\* candidates, whether or not the point-in-polygon test finds the pointer
\* inside it and also when the event has no position: its name is toggled,
\* and when the test missed it and its name was absent the new entry holds
\* that very feature; the no-coverage layer hands over a feature the test
\* found.  So a click that is not suppressed always changes the store.
ClickedFeatureIsCandidate ==
    /\ [](\A t \in ClickTargets :
            LET found == IF t[2] = None THEN <<>>
                         ELSE findGridCandidatesAtLatLng(polygonLayer, t[2][1])
                after == processGridClickStore(selectedGridMap, polygonLayer, t[1], t[2])
                key == toUpperCase(getGridName(Feature(t[1])))
            IN  /\ key \in {UpperOf(f) : f \in Range(clickCandidates(polygonLayer, t[1], t[2]))}
                /\ StoreHas(after, key) # StoreHas(selectedGridMap, key)
                /\ (t[1] \notin Range(found) /\ ~StoreHas(selectedGridMap, key)) =>
                      \E i \in DOMAIN after : after[i].key = key /\ after[i].feature = t[1])
    /\ [][(lastOp'.op \in {"click", "noCoverageClick"}
           /\ lastOp'.branch \notin {"suppressed", "nocandidates"}) =>
              /\ ~suppressNextGridClick
              /\ selectedGridMap' # selectedGridMap
              /\ StoreKeys(selectedGridMap') # StoreKeys(selectedGridMap)
              /\ \E f \in Range(polygonLayer[1]) :
                    StoreHas(selectedGridMap', UpperOf(f)) # StoreHas(selectedGridMap, UpperOf(f))]_vars

\* a rendered polygon can be clicked on its stroke, where the
\* point-in-polygon test does not find the pointer inside it, and a click
\* has just added a grid
ClickOnStrokeAdded ==
    /\ lastOp = Op("click", "added")
    /\ \E t \in ClickTargets :
          /\ t[2] # None
          /\ ~ContainsTable[t[2][1]][t[1]]
          /\ \E i \in DOMAIN selectedGridMap : selectedGridMap[i].feature = t[1]

=============================================================================
